---- MODULE Spec2Model ----
(***************************************************************************)
(* cc-insights: the time filter, the snapshot cache, the cache builder and *)
(* the concurrent aggregation passes, modelled from the Go sources.        *)
(*                                                                         *)
(* Instants (Go time.Time) are whole Unix seconds.  An optional pointer    *)
(* (a pointer to time.Time) is a set: {} is nil, {t} points to t.         *)
(***************************************************************************)
EXTENDS Integers, Sequences, FiniteSets, TLC

VARIABLES
    \* ---- environment of the time filter and the data API
    tz,         \* offset of time.Local east of UTC, in seconds
    now,        \* what time.Now() returns
    req,        \* the query parameters of the last request
    tf,         \* the TimeFilter the last request built
    built,      \* the constructor that built tf
    ferr,       \* NewTimeFilterCustom returned an error
    resp,       \* the response of the last request
    aggTf,      \* the filters an aggregation has been run with in the last request
    probe,      \* the instant last passed to TimeFilter.Contains
    contained,  \* what TimeFilter.Contains returned for it
    \* ---- the snapshot cache (cache.go)
    cache,      \* the CacheFile the methods are called on
    view,       \* the CacheFile returned by the last QueryByTimeRange, if any
    qrange,     \* the start and end of that query
    expArg,     \* the instant last passed to IsExpired, if any
    expired,    \* what IsExpired returned for it
    \* ---- the cache builder (cache_builder.go) and the files it reads
    cacheFile,  \* the file at CacheBuilder.CachePath
    dataFs,     \* the files and directories under CacheBuilder.DataDir
    needs,      \* what the last NeedsRebuild returned, if it has been called
    \* ---- an aggregation pass (ParseProjectsConcurrentOnce, ParseHistoryConcurrent)
    pass,       \* the pass that runs: "projects" or "history"
    ncpu,       \* runtime.NumCPU()
    corpus,     \* the input of the pass: the files and the lines they hold
    mainPc,     \* where the calling goroutine is
    pc,         \* where each goroutine the pass started is
    dec,        \* the json.Decoder of each open file: lines consumed, saved error
    cur,        \* the locals of each goroutine
    sem,        \* the number of slots taken in the semaphore channel
    batches,    \* the channel of batches: its queue and whether it is closed
    mu,         \* the holder of the mutex, if any
    agg,        \* the shared result of the pass
    \* ---- calls of the cache builder and of the snapshot store
    ret,        \* the call of BuildFullCache, IncrementalUpdate or
                \* GetLastDataModified made in the last step, if one was:
                \* what it was given and how it ended
    loaded,     \* the last Save and LoadCacheFile on the cache file
    \* ---- the data API served from the live snapshot (api.go)
    globalCache,\* the package variable globalCache: {} is nil
    handler,    \* where the goroutine of a request to /api/data is, its
                \* filter, and what it has answered
    \* ---- the parsers of one statistic each (parser.go), run over the
    \* ---- same transcripts
    scan,       \* the files, the place of the decoders in them, and what
                \* each parser has counted
    \* ---- the objects behind the pointers and maps of a snapshot and of
    \* ---- the views queried from it
    heap        \* the cell at each address, and the views returned so far

filterVars == <<tz, now, req, tf, built, ferr, resp, aggTf, probe, contained>>

cacheVars == <<cache, view, qrange, expArg, expired>>

builderVars == <<cacheFile, dataFs, needs>>

projVars == <<corpus, mainPc, pc, dec, cur, sem, batches, mu, agg>>

aggVars == <<pass, ncpu, projVars>>

serveVars == <<globalCache, handler>>

scanVars == <<scan>>

heapVars == <<heap>>

callVars == <<ret, loaded, serveVars, scanVars, heapVars>>

vars == <<filterVars, cacheVars, builderVars, aggVars, callVars>>

otherThanFilter  == <<cacheVars, builderVars, aggVars, callVars>>
otherThanCache   == <<filterVars, builderVars, aggVars, callVars>>
otherThanBuilder ==
    <<tz, req, tf, built, ferr, resp, aggTf, probe, contained, cacheVars, aggVars, loaded, serveVars,
      scanVars, heapVars>>
otherThanAgg     == <<filterVars, cacheVars, builderVars, callVars>>

----------------------------------------------------------------------------
(* Calendar arithmetic of package time, for the proleptic Gregorian        *)
(* calendar in UTC.                                                        *)

SecondsPerDay == 24 * 60 * 60

IsLeap(y) == (y % 4 = 0) /\ ((y % 100 # 0) \/ (y % 400 = 0))

DaysIn(y, m) ==
    IF m = 2 THEN (IF IsLeap(y) THEN 29 ELSE 28)
    ELSE IF m \in {4, 6, 9, 11} THEN 30 ELSE 31

\* Days from 1970-01-01 to y-m-d.
DaysFromCivil(y, m, d) ==
    LET yy  == IF m <= 2 THEN y - 1 ELSE y
        era == yy \div 400
        yoe == yy - era * 400
        mp  == (m + 9) % 12
        doy == (153 * mp + 2) \div 5 + d - 1
        doe == yoe * 365 + yoe \div 4 - yoe \div 100 + doy
    IN  era * 146097 + doe - 719468

\* time.Date(y, m, d, hh, mm, ss, 0, loc) for a zone at offset off.
DateAt(y, m, d, hh, mm, ss, off) ==
    DaysFromCivil(y, m, d) * SecondsPerDay + hh * 3600 + mm * 60 + ss - off

\* The strings handed to time.Parse: a text of the shape YYYY-MM-DD is
\* [kind |-> "date", y, m, d]; any other text is "text"; "" is "empty".
EmptyStr == [kind |-> "empty"]
TextStr  == [kind |-> "text"]
DateStr(y, m, d) == [kind |-> "date", y |-> y, m |-> m, d |-> d]

\* time.Parse("2006-01-02", s): the error result.
ParseFails(s) ==
    \/ s.kind # "date"
    \/ s.m < 1 \/ s.m > 12
    \/ s.d < 1 \/ s.d > DaysIn(s.y, s.m)

\* time.Parse("2006-01-02", s): the instant, midnight UTC of the date.
ParseDate(s) == DateAt(s.y, s.m, s.d, 0, 0, 0, 0)

----------------------------------------------------------------------------
(* filter.go                                                               *)

NoFilter == [Start |-> {}, End |-> {}]

Deref(p) == CHOOSE t \in p : TRUE

Before(a, b) == a < b
After(a, b)  == a > b

\* now.AddDate(0, 0, days) in a zone of fixed offset.
AddDays(t, days) == t + days * SecondsPerDay

PresetDaysMutant(preset) ==
    IF preset = "7d" THEN {7}
    ELSE IF preset = "30d" THEN {30}
    ELSE IF preset = "90d" THEN {90}
    ELSE IF preset = "all" THEN {}
    ELSE {7}

\* The switch of NewTimeFilterFromPreset: the number of days of a known
\* preset, nothing for "all" and for the default branch.
PresetDays(preset) ==
    IF preset = "7d" THEN {7}
    ELSE IF preset = "30d" THEN {30}
    ELSE IF preset = "90d" THEN {90}
    ELSE {}

NewTimeFilterFromPreset(preset, n) ==
    IF PresetDays(preset) = {} THEN NoFilter
    ELSE [Start |-> {AddDays(n, 0 - Deref(PresetDays(preset)))}, End |-> {n}]

NewTimeFilterCustomMutant(start, end, off) ==
    IF ParseFails(start) THEN [filter |-> NoFilter, err |-> TRUE]
    ELSE IF ParseFails(end)
         THEN [filter |-> [Start |-> {ParseDate(start)}, End |-> {}], err |-> FALSE]
    ELSE [filter |-> [Start |-> {ParseDate(start)},
                      End   |-> {DateAt(end.y, end.m, end.d, 23, 59, 59, off)}],
          err |-> FALSE]

\* NewTimeFilterCustom(start, end) with time.Local at offset off.
NewTimeFilterCustom(start, end, off) ==
    IF ParseFails(start) THEN [filter |-> NoFilter, err |-> TRUE]
    ELSE IF ParseFails(end) THEN [filter |-> NoFilter, err |-> TRUE]
    ELSE [filter |-> [Start |-> {ParseDate(start)},
                      End   |-> {DateAt(end.y, end.m, end.d, 23, 59, 59, off)}],
          err |-> FALSE]

ContainsMutant(f, t) ==
    IF f.Start = {} /\ f.End = {} THEN TRUE
    ELSE IF f.Start # {} /\ ~After(t, Deref(f.Start)) THEN FALSE
    ELSE IF f.End # {} /\ After(t, Deref(f.End)) THEN FALSE
    ELSE TRUE

\* TimeFilter.Contains
Contains(f, t) ==
    IF f.Start = {} /\ f.End = {} THEN TRUE
    ELSE IF f.Start # {} /\ Before(t, Deref(f.Start)) THEN FALSE
    ELSE IF f.End # {} /\ After(t, Deref(f.End)) THEN FALSE
    ELSE TRUE

----------------------------------------------------------------------------
(* cache.go: the zero value of a snapshot.                                 *)

\* The zero time.Time: 0001-01-01T00:00:00Z, which is before every instant
\* of the model; only its order and IsZero are used.
ZeroTime == 0 - 2147483647

\* A Go map with no entry (nil or empty: the two hold the same counts).
EmptyMap == [k \in {} |-> 0]

NilHourly  == [h \in 0..23 |-> {}]
NilWeekday == [w \in 0..6 |-> {}]

EmptyCache ==
    [Version |-> "", LastUpdate |-> ZeroTime,
     TimeRange |-> [Start |-> ZeroTime, End |-> ZeroTime],
     DailyStats |-> EmptyMap, HourlyStats |-> NilHourly,
     TotalMessages |-> 0, TotalSessions |-> 0,
     ProjectStats |-> EmptyMap, ModelUsage |-> EmptyMap,
     WeekdayStats |-> NilWeekday, MCPToolStats |-> EmptyMap]

IdleCache ==
    /\ cache = EmptyCache
    /\ view = {}
    /\ qrange = [Start |-> ZeroTime, End |-> ZeroTime]
    /\ expArg = {}
    /\ expired = FALSE

\* A file of the file system: absent, present but not accessible, or present
\* with a modification time (and, for the cache file, its content).
Absent == [st |-> "absent"]
Denied == [st |-> "denied"]
File(mtime) == [st |-> "ok", mtime |-> mtime]

\* A directory: absent, not readable, or readable with its entries in the
\* order os.ReadDir lists them.
DirEntry(d) == [kind |-> "dir", dir |-> d]
FileEntry(f) == [kind |-> "file", file |-> f]
Dir(entries) == [st |-> "ok", entries |-> entries]

EmptyDataDir ==
    [history |-> Absent, stats |-> Absent, debug |-> Absent, projects |-> Absent]

IdleBuilder ==
    /\ cacheFile = Absent
    /\ dataFs = EmptyDataDir
    /\ needs = {}

\* No call has been made.
NoCall == [op |-> "none"]

\* No request is being served.
NoHandler == [pc |-> "idle"]

\* No parser runs.
NoScan == [pc |-> "idle"]

\* No object is followed.
NoHeap == [cells |-> <<>>, views |-> <<>>, writes |-> 0]

IdleCalls ==
    /\ ret = NoCall
    /\ loaded = NoCall
    /\ globalCache = {}
    /\ handler = NoHandler
    /\ scan = NoScan
    /\ heap = NoHeap

----------------------------------------------------------------------------
(* parser.go: the records of projects/<id>/*.jsonl and the single-pass     *)
(* aggregate (parseProjectFileAggregate, finalize).                        *)

\* Inverse of DaysFromCivil: the date of a day number, as time.Time.Format
\* with the layout "2006-01-02" prints it.
CivilFromDays(z) ==
    LET zz  == z + 719468
        era == zz \div 146097
        doe == zz - era * 146097
        yoe == (doe - doe \div 1460 + doe \div 36524 - doe \div 146096) \div 365
        doy == doe - (365 * yoe + yoe \div 4 - yoe \div 100)
        mp  == (5 * doy + 2) \div 153
        d   == doy - (153 * mp + 2) \div 5 + 1
        m   == IF mp < 10 THEN mp + 3 ELSE mp - 9
        y   == yoe + era * 400 + (IF m <= 2 THEN 1 ELSE 0)
    IN  DateStr(y, m, d)

\* A parsed timestamp is an instant sec with the zone offset off it was
\* written in; Format, Hour and Weekday read the clock of that zone.
FormatDate(t) == CivilFromDays((t.sec + t.off) \div SecondsPerDay)
HourOf(t)     == ((t.sec + t.off) % SecondsPerDay) \div 3600
\* time.Weekday: Sunday = 0; 1970-01-01 was a Thursday.
WeekdayOf(t)  == ((t.sec + t.off) \div SecondsPerDay + 4) % 7

\* m[k] += n on a Go map of integers.
Inc(m, k, n) ==
    IF k \in DOMAIN m THEN [m EXCEPT ![k] = @ + n] ELSE m @@ (k :> n)

\* The names of the days, Monday first (Chinese in the source).
weekdayNames == <<"Mon", "Tue", "Wed", "Thu", "Fri", "Sat", "Sun">>

\* The aggregate ParseProjectsConcurrentOnce starts from.
NewAggregate ==
    [ProjectStats  |-> EmptyMap,
     WeekdayData   |-> [i \in 0..6 |-> [Weekday |-> i, WeekdayName |-> weekdayNames[i + 1],
                                        MessageCount |-> 0]],
     DailyActivity |-> EmptyMap,
     HourlyCounts  |-> [h \in 0..23 |-> 0],
     ModelUsage    |-> EmptyMap,
     \* the output fields, nil until finalize
     Projects          |-> <<>>,
     WeekdayStats      |-> <<>>,
     DailyActivityList |-> <<>>,
     HourlyData        |-> <<>>,
     ModelUsageList    |-> <<>>,
     WorkHoursStats    |-> {}]

\* A line of a transcript file, as json.Decoder.Decode meets it: a value
\* that decodes into a ProjectRecord, a value of the wrong shape
\* (UnmarshalTypeError), or text that is no JSON (SyntaxError).
ProjectRecord(type, cwd, sid, tsOk, ts, msgOk, model, in, out) ==
    [kind |-> "record", Type |-> type, Cwd |-> cwd, SessionID |-> sid,
     tsOk |-> tsOk, ts |-> ts, msgOk |-> msgOk, Model |-> model,
     InputTokens |-> in, OutputTokens |-> out]
TypeErrorLine == [kind |-> "typeerr"]
SyntaxErrorLine == [kind |-> "syntax"]

\* The conditions under which parseProjectFileAggregate counts a decoded
\* record (timestamp parses, filter contains it, type is "assistant").
Counted(rec, f) ==
    /\ rec.kind = "record"
    /\ rec.tsOk
    /\ Contains(f, rec.ts.sec)
    /\ rec.Type = "assistant"

ProjectName(rec) == IF rec.Cwd = "" THEN "Unknown" ELSE rec.Cwd

\* Step 5 of the critical section: the model statistics.
CountModel(usage, rec) ==
    IF rec.msgOk /\ rec.Model # ""
    THEN LET old == IF rec.Model \in DOMAIN usage THEN usage[rec.Model]
                    ELSE [Model |-> rec.Model, Count |-> 0, Tokens |-> 0]
         IN  (rec.Model :> [old EXCEPT !.Count = @ + 1,
                                       !.Tokens = @ + rec.InputTokens + rec.OutputTokens])
                @@ usage
    ELSE usage

CountProjectMutant(stats, rec) ==
    IF rec.Cwd = "" THEN stats
    ELSE LET name == ProjectName(rec)
             old == IF name \in DOMAIN stats THEN stats[name]
                    ELSE [Project |-> name, SessionCount |-> 0, MessageCount |-> 0]
         IN  (name :> [old EXCEPT !.MessageCount = @ + 1]) @@ stats

\* Step 1 of the critical section: the project statistics.
CountProject(stats, rec) ==
    LET name == ProjectName(rec)
        old == IF name \in DOMAIN stats THEN stats[name]
               ELSE [Project |-> name, SessionCount |-> 0, MessageCount |-> 0]
    IN  (name :> [old EXCEPT !.MessageCount = @ + 1]) @@ stats

\* Step 2 of the critical section: the place of a time.Weekday in the
\* week that begins on Monday.
adjustedWeekday(weekday) == (weekday + 6) % 7

\* The critical section of parseProjectFileAggregate for one counted record.
ApplyRecord(a, rec) ==
    [a EXCEPT
        !.ProjectStats  = CountProject(@, rec),
        !.WeekdayData   = [@ EXCEPT ![adjustedWeekday(WeekdayOf(rec.ts))].MessageCount = @ + 1],
        !.DailyActivity = Inc(@, FormatDate(rec.ts), 1),
        !.HourlyCounts  = [@ EXCEPT ![HourOf(rec.ts)] = @ + 1],
        !.ModelUsage    = CountModel(@, rec)]

\* The order of sort.Strings on dates printed as YYYY-MM-DD.
DateLess(a, b) ==
    \/ a.y < b.y
    \/ a.y = b.y /\ a.m < b.m
    \/ a.y = b.y /\ a.m = b.m /\ a.d < b.d

\* The lists that hold each value of the map once.
ListsOf(map) ==
    { l \in [1..Cardinality(DOMAIN map) -> {map[k] : k \in DOMAIN map}] :
        \A k \in DOMAIN map : \E i \in DOMAIN l : l[i] = map[k] }

\* sort.Slice with a "greater count first" comparison: the order of equal
\* counts is whatever the map iteration and the unstable sort leave.
Descending(l, field) ==
    \A i \in DOMAIN l : \A j \in DOMAIN l : i < j => l[i][field] >= l[j][field]

DailyListMutant(daily) ==
    CHOOSE l \in [1..Cardinality(DOMAIN daily) ->
                    {[Date |-> d, MessageCount |-> daily[d]] : d \in DOMAIN daily}] :
        /\ \A d \in DOMAIN daily : \E i \in DOMAIN l : l[i].Date = d
        /\ \A i \in DOMAIN l : \A j \in DOMAIN l : i < j => DateLess(l[j].Date, l[i].Date)

\* The daily list: one entry per date, ascending by date string.
DailyList(daily) ==
    CHOOSE l \in [1..Cardinality(DOMAIN daily) ->
                    {[Date |-> d, MessageCount |-> daily[d]] : d \in DOMAIN daily}] :
        /\ \A d \in DOMAIN daily : \E i \in DOMAIN l : l[i].Date = d
        /\ \A i \in DOMAIN l : \A j \in DOMAIN l : i < j => DateLess(l[i].Date, l[j].Date)

HourlyList(counts) ==
    [i \in 1..24 |-> [Hour |-> i - 1, Count |-> counts[i - 1],
                      IsWorkHour |-> (i - 1 >= 9 /\ i - 1 <= 18)]]

\* One turn of the loop of finalize over HourlyData: the count goes to the
\* work or to the off total, and a count greater than the peak so far makes
\* its hour the peak.
AddHour(acc, item) ==
    [acc EXCEPT
        !.WorkHoursCount = IF item.IsWorkHour THEN @ + item.Count ELSE @,
        !.OffHoursCount = IF item.IsWorkHour THEN @ ELSE @ + item.Count,
        !.Peak = IF item.Count > @.Count THEN [Hour |-> item.Hour, Count |-> item.Count]
                 ELSE @]

\* The loop of finalize over HourlyData: the work and off totals and the
\* first hour that holds the greatest count.
RECURSIVE WorkHoursLoop(_, _, _)
WorkHoursLoop(items, i, acc) ==
    IF i > Len(items) THEN acc
    ELSE WorkHoursLoop(items, i + 1, AddHour(acc, items[i]))

\* WorkHoursRatio, a float64 in the code, is kept as the fraction
\* 100 * work / total (0 / 1 when nothing was counted).
WorkHoursStatsOf(items, r) ==
    [HourlyData |-> items,
     WorkHoursCount |-> r.WorkHoursCount, OffHoursCount |-> r.OffHoursCount,
     WorkHoursRatio |-> IF r.WorkHoursCount + r.OffHoursCount > 0
                        THEN <<100 * r.WorkHoursCount, r.WorkHoursCount + r.OffHoursCount>>
                        ELSE <<0, 1>>,
     PeakHour |-> r.Peak.Hour, PeakHourCount |-> r.Peak.Count]

WorkHours(items) ==
    WorkHoursStatsOf(items,
        WorkHoursLoop(items, 1, [WorkHoursCount |-> 0, OffHoursCount |-> 0,
                                 Peak |-> [Hour |-> 0, Count |-> 0]]))

\* ProjectAggregate.finalize, given the orders the two sorts produce.
Finalized(a, projects, models) ==
    [a EXCEPT
        !.Projects          = projects,
        !.WeekdayStats      = [i \in 1..7 |-> a.WeekdayData[i - 1]],
        !.DailyActivityList = DailyList(a.DailyActivity),
        !.HourlyData        = HourlyList(a.HourlyCounts),
        !.ModelUsageList    = models,
        !.WorkHoursStats    = {WorkHours(HourlyList(a.HourlyCounts))}]

----------------------------------------------------------------------------
(* concurrent.go: ParseHistoryConcurrent.                                  *)

\* A line of history.jsonl that decodes into a HistoryRecord.  Display is
\* the sequence of its words and of the blanks between them; Timestamp, in
\* milliseconds, is kept as whole seconds and the milliseconds within.
Blank == " "
HistoryRecordIn(project, display, sec, msec) ==
    [kind |-> "record", Display |-> display, Timestamp |-> [sec |-> sec, msec |-> msec],
     Project |-> project]

\* A line that names no project.
HistoryRecord(display, sec, msec) == HistoryRecordIn("", display, sec, msec)

\* record.Timestamp / 1000 of a timestamp that is not negative.
UnixSeconds(ts) == ts.sec

\* The words that begin with a slash.
SlashWords == {"/commit", "/help", "/"}

\* strings.HasPrefix(display, "/")
HasSlashPrefix(display) == Len(display) > 0 /\ display[1] \in SlashWords

\* strings.Fields(display)
Fields(display) == SelectSeq(display, LAMBDA w : w # Blank)

\* fmt.Sprintf("%02d", h): the two decimal digits of an hour.
Sprintf02d(h) == <<h \div 10, h % 10>>

\* time.Unix(sec, 0).Hour(), read on the clock of time.Local.
LocalHour(sec, off) == HourOf([sec |-> sec, off |-> off])

getWorkerCount(n) == IF n \div 2 < 1 THEN 1 ELSE n \div 2

CountHistoryRecordMutant(local, rec, off) ==
    [localCmds   |-> IF Len(Fields(rec.Display)) > 0
                     THEN Inc(local.localCmds, Fields(rec.Display)[1], 1)
                     ELSE local.localCmds,
     localHourly |-> Inc(local.localHourly,
                         Sprintf02d(LocalHour(UnixSeconds(rec.Timestamp), off)), 1)]

\* The body of the worker's loop over a batch, for one record.
CountHistoryRecord(local, rec, off) ==
    [localCmds   |-> IF HasSlashPrefix(rec.Display) /\ Len(Fields(rec.Display)) > 0
                     THEN Inc(local.localCmds, Fields(rec.Display)[1], 1)
                     ELSE local.localCmds,
     localHourly |-> Inc(local.localHourly,
                         Sprintf02d(LocalHour(UnixSeconds(rec.Timestamp), off)), 1)]

RECURSIVE CountBatch(_, _, _)
CountBatch(local, batch, off) ==
    IF batch = <<>> THEN local
    ELSE CountBatch(CountHistoryRecord(local, Head(batch), off), Tail(batch), off)

MergeCountsMutant(shared, local) ==
    [k \in DOMAIN shared \cup DOMAIN local |->
        IF k \in DOMAIN local THEN local[k] ELSE shared[k]]

\* for k, count := range local { shared[k] += count }
MergeCounts(shared, local) ==
    [k \in DOMAIN shared \cup DOMAIN local |->
        (IF k \in DOMAIN shared THEN shared[k] ELSE 0)
          + (IF k \in DOMAIN local THEN local[k] ELSE 0)]

\* The CommandStats of the counted commands, before they are sorted.
CommandStatsOf(counts) ==
    [cmd \in DOMAIN counts |-> [Command |-> cmd, Count |-> counts[cmd]]]

NoChannel == [q |-> <<>>, closed |-> FALSE]

IdleAgg ==
    /\ pass = "none"
    /\ ncpu = 1
    /\ corpus = <<>>
    /\ mainPc = "idle"
    /\ pc = <<>>
    /\ dec = <<>>
    /\ cur = <<>>
    /\ sem = 0
    /\ batches = NoChannel
    /\ mu = {}
    /\ agg = NewAggregate

----------------------------------------------------------------------------
(* The data API (api.go, handleDataAPI) as the caller of the filter.       *)

Presets == {"", "7d", "30d", "90d", "all", "custom", "1y"}

DateStrings ==
    { EmptyStr, TextStr,
      DateStr(2026, 1, 6), DateStr(2026, 1, 8),
      DateStr(2024, 2, 29), DateStr(2026, 2, 29), DateStr(2026, 13, 1) }

\* The zones time.Local is drawn from: New York (winter), UTC, Shanghai.
Zones == { 0 - 5 * 3600, 0, 8 * 3600 }

Clock == { DateAt(2026, 1, 8, 12, 0, 0, 0), DateAt(2026, 2, 1, 0, 30, 0, 0) }

NoRequest == [preset |-> "", start |-> EmptyStr, end |-> EmptyStr]

\* The instants Contains is asked about: the bounds of the filter, the
\* seconds next to them, and two instants that depend on no bound.
Probes ==
    UNION { {t - 1, t, t + 1} : t \in tf.Start \cup tf.End }
      \cup { now, DateAt(2026, 1, 7, 9, 0, 0, 0) }

InitFilter ==
    /\ tz \in Zones
    /\ now \in Clock
    /\ req = NoRequest
    /\ tf = NoFilter
    /\ built = "none"
    /\ ferr = FALSE
    /\ resp = "none"
    /\ aggTf = {}
    /\ probe = {}
    /\ contained = FALSE
    /\ IdleCache
    /\ IdleBuilder
    /\ IdleAgg
    /\ IdleCalls

\* handleDataAPI: builds the filter from the query parameters, answers an
\* error when the custom dates do not parse, and otherwise runs the
\* aggregation with the filter it built.  The handler keeps no state
\* between requests, so a behaviour follows one request.
HandleDataAPI(preset, startStr, endStr) ==
    LET custom == NewTimeFilterCustom(startStr, endStr, tz)
        useCustom == startStr # EmptyStr /\ endStr # EmptyStr
        f == IF useCustom THEN custom.filter
             ELSE IF preset # "" THEN NewTimeFilterFromPreset(preset, now)
             ELSE NoFilter
        failed == useCustom /\ custom.err
    IN  /\ built = "none"
        /\ req' = [preset |-> preset, start |-> startStr, end |-> endStr]
        /\ tf' = f
        /\ built' = IF useCustom THEN "custom"
                    ELSE IF preset # "" THEN "preset" ELSE "default"
        /\ ferr' = failed
        /\ resp' = IF failed THEN "error" ELSE "ok"
        /\ aggTf' = IF failed THEN {} ELSE {f}
        /\ probe' = {}
        /\ contained' = FALSE
        /\ UNCHANGED <<tz, now>>
        /\ UNCHANGED otherThanFilter

\* A caller that writes the struct literal TimeFilter{Start: s, End: e}.
FilterLiteral(s, e) ==
    /\ built = "none"
    /\ tf' = [Start |-> s, End |-> e]
    /\ built' = "literal"
    /\ req' = NoRequest
    /\ ferr' = FALSE
    /\ resp' = "none"
    /\ aggTf' = {}
    /\ probe' = {}
    /\ contained' = FALSE
    /\ UNCHANGED <<tz, now>>
    /\ UNCHANGED otherThanFilter

\* tf.Contains(t)
CallContains(t) ==
    /\ probe' = {t}
    /\ contained' = Contains(tf, t)
    /\ UNCHANGED <<tz, now, req, tf, built, ferr, resp, aggTf>>
    /\ UNCHANGED otherThanFilter

LiteralBounds == { {}, {DateAt(2026, 1, 7, 0, 0, 0, 0)}, {DateAt(2026, 1, 8, 23, 59, 59, 0)} }

NextFilter ==
    \/ \E p \in Presets, s \in DateStrings, e \in DateStrings : HandleDataAPI(p, s, e)
    \/ \E s \in LiteralBounds, e \in LiteralBounds : FilterLiteral(s, e)
    \/ \E t \in Probes : CallContains(t)

SpecFilter == InitFilter /\ [][NextFilter]_vars

----------------------------------------------------------------------------
(* Claims about the time filter.                                           *)

\* C3: Contains(t) is true if and only if (Start is absent or t >= Start)
\* and (End is absent or t <= End); both bounds are inclusive, and the
\* filter with both bounds absent contains every instant.
C3_ContainsIffWithinBounds ==
    \A t \in probe :
        contained <=> /\ (tf.Start = {} \/ t >= Deref(tf.Start))
                      /\ (tf.End = {} \/ t <= Deref(tf.End))

\* Contains has answered for an instant equal to the Start bound of a
\* filter that has both bounds.
C3_Witness ==
    /\ probe # {} /\ tf.Start # {} /\ tf.End # {}
    /\ probe = tf.Start
    /\ contained

\* The instants from 00:00:00 of the start date to 23:59:59 of the end date
\* on the calendar of a zone at offset off are contained, and 00:00:00 of
\* the day after the end date is not.
WholeDays(off) ==
    LET first == DateAt(req.start.y, req.start.m, req.start.d, 0, 0, 0, off)
        last  == DateAt(req.end.y, req.end.m, req.end.d, 23, 59, 59, off)
    IN  /\ \A t \in {first, first + 1, last - 1, last} : first <= last => Contains(tf, t)
        /\ ~Contains(tf, last + 1)

\* C4: a custom filter has inclusive whole-day semantics: it contains every
\* instant from 00:00:00 of the start date up to and including 23:59:59 of
\* the end date and not 00:00:00 of the next day, the days being read on
\* the UTC calendar or on the calendar of time.Local.
C4_CustomWholeDays ==
    (built = "custom" /\ ~ferr) => (WholeDays(0) \/ WholeDays(tz))

\* C5: NewTimeFilterCustom returns an error and the empty filter whenever
\* the start or the end string is no valid date; the data API then answers
\* the error and runs no aggregation.
C5_InvalidDateIsError ==
    (built = "custom" /\ (ParseFails(req.start) \/ ParseFails(req.end)))
        => /\ ferr
           /\ tf = NoFilter
           /\ resp = "error"
           /\ aggTf = {}
           /\ \A s \in DateStrings, e \in DateStrings :
                 (ParseFails(s) \/ ParseFails(e)) =>
                     NewTimeFilterCustom(s, e, tz) = [filter |-> NoFilter, err |-> TRUE]

\* A custom request whose start date parses and whose end date does not.
C5_Witness ==
    /\ built = "custom"
    /\ ~ParseFails(req.start) /\ ParseFails(req.end)
    /\ resp = "error"

\* C6: the preset filter is {now - N days, now} with N = 7, 30, 90 for 7d,
\* 30d, 90d, and unbounded for "all" and for every unknown preset name.
C6_PresetRanges ==
    built = "preset" =>
        /\ req.preset = "7d"  => tf = [Start |-> {now - 7 * SecondsPerDay}, End |-> {now}]
        /\ req.preset = "30d" => tf = [Start |-> {now - 30 * SecondsPerDay}, End |-> {now}]
        /\ req.preset = "90d" => tf = [Start |-> {now - 90 * SecondsPerDay}, End |-> {now}]
        /\ req.preset \notin {"7d", "30d", "90d"} => tf = NoFilter

\* An unknown preset name has been requested and answered.
C6_Witness ==
    /\ built = "preset" /\ req.preset = "1y" /\ resp = "ok" /\ tf = NoFilter

----------------------------------------------------------------------------
(* cache.go: TimeRange, IsExpired, QueryByTimeRange.                       *)

IsZero(t) == t = ZeroTime

TimeRangeContainsMutant(tr, t) ==
    IF IsZero(tr.Start) /\ IsZero(tr.End) THEN TRUE
    ELSE IF ~IsZero(tr.Start) /\ Before(t, tr.Start) THEN FALSE
    ELSE IF ~IsZero(tr.End) /\ ~Before(t, tr.End) THEN FALSE
    ELSE TRUE

\* TimeRange.Contains
TimeRangeContains(tr, t) ==
    IF IsZero(tr.Start) /\ IsZero(tr.End) THEN TRUE
    ELSE IF ~IsZero(tr.Start) /\ Before(t, tr.Start) THEN FALSE
    ELSE IF ~IsZero(tr.End) /\ After(t, tr.End) THEN FALSE
    ELSE TRUE

IsExpiredMutant(cf, dataLastModified) == ~Before(dataLastModified, cf.LastUpdate)

\* CacheFile.IsExpired
IsExpired(cf, dataLastModified) == After(dataLastModified, cf.LastUpdate)

\* The sum of a field over the entries of a map with the given keys.
RECURSIVE SumField(_, _, _)
SumField(stats, keys, field) ==
    IF keys = {} THEN 0
    ELSE LET k == CHOOSE x \in keys : TRUE
         IN  stats[k][field] + SumField(stats, keys \ {k}, field)

\* The loop over cf.DailyStats: the keys that parse as a date within the
\* query range.
DatesInRange(cf, start, end) ==
    { date \in DOMAIN cf.DailyStats :
        /\ ~ParseFails(date)
        /\ TimeRangeContains([Start |-> start, End |-> end], ParseDate(date)) }

QueryByTimeRangeMutant(cf, start, end) ==
    LET kept == DatesInRange(cf, start, end)
    IN  [Version       |-> cf.Version,
         LastUpdate    |-> cf.LastUpdate,
         TimeRange     |-> [Start |-> start, End |-> end],
         DailyStats    |-> [date \in kept |-> cf.DailyStats[date]],
         HourlyStats   |-> [h \in 0..23 |-> cf.HourlyStats[h]],
         TotalMessages |-> SumField(cf.DailyStats, kept, "MessageCount"),
         TotalSessions |-> SumField(cf.DailyStats, kept, "SessionCount"),
         ProjectStats  |-> [proj \in DOMAIN cf.ProjectStats |-> cf.ProjectStats[proj]],
         ModelUsage    |-> EmptyMap,
         WeekdayStats  |-> [w \in 0..6 |-> cf.WeekdayStats[w]],
         MCPToolStats  |-> [tool \in DOMAIN cf.MCPToolStats |-> cf.MCPToolStats[tool]]]

\* CacheFile.QueryByTimeRange
QueryByTimeRange(cf, start, end) ==
    LET kept == DatesInRange(cf, start, end)
    IN  [Version       |-> cf.Version,
         LastUpdate    |-> cf.LastUpdate,
         TimeRange     |-> [Start |-> start, End |-> end],
         DailyStats    |-> [date \in kept |-> cf.DailyStats[date]],
         HourlyStats   |-> [h \in 0..23 |-> cf.HourlyStats[h]],
         TotalMessages |-> SumField(cf.DailyStats, kept, "MessageCount"),
         TotalSessions |-> SumField(cf.DailyStats, kept, "SessionCount"),
         ProjectStats  |-> [proj \in DOMAIN cf.ProjectStats |-> cf.ProjectStats[proj]],
         ModelUsage    |-> [model \in DOMAIN cf.ModelUsage |-> cf.ModelUsage[model]],
         WeekdayStats  |-> [w \in 0..6 |-> cf.WeekdayStats[w]],
         MCPToolStats  |-> [tool \in DOMAIN cf.MCPToolStats |-> cf.MCPToolStats[tool]]]

\* buildDataFromCache: the range it queries for a filter (api.go:107-116).
RangeOfFilter(f) ==
    [Start |-> IF f.Start # {} THEN Deref(f.Start) ELSE ZeroTime,
     End   |-> IF f.End # {} THEN Deref(f.End) ELSE ZeroTime]

----------------------------------------------------------------------------
(* cache.go: Save and LoadCacheFile.  The file holds the JSON document of  *)
(* json.MarshalIndent; json.Unmarshal reads it back.                       *)

\* time.Time.MarshalJSON: the RFC 3339 text of the instant on the clock of
\* its location, at offset off; the zero time is 0001-01-01T00:00:00Z.
MarshalTimeMutant(t, off) ==
    IF IsZero(t) THEN [text |-> "0001-01-01T00:00:00Z"]
    ELSE [date |-> CivilFromDays((t + off) \div SecondsPerDay),
          h |-> ((t + off) % SecondsPerDay) \div 3600,
          m |-> ((t + off) % 3600) \div 60,
          s |-> (t + off) % 60,
          off |-> 0]

MarshalTime(t, off) ==
    IF IsZero(t) THEN [text |-> "0001-01-01T00:00:00Z"]
    ELSE [date |-> CivilFromDays((t + off) \div SecondsPerDay),
          h |-> ((t + off) % SecondsPerDay) \div 3600,
          m |-> ((t + off) % 3600) \div 60,
          s |-> (t + off) % 60,
          off |-> off]

\* time.Time.UnmarshalJSON
UnmarshalTime(j) ==
    IF "text" \in DOMAIN j THEN ZeroTime
    ELSE DateAt(j.date.y, j.date.m, j.date.d, j.h, j.m, j.s, j.off)

\* The json tags of the structs that have them; DayAggregate and
\* HourAggregate have none and go under their Go field names.
ProjectStatItemTags ==
    [Project |-> "project", SessionCount |-> "session_count",
     MessageCount |-> "message_count"]
WeekdayItemTags ==
    [Weekday |-> "weekday", WeekdayName |-> "weekday_name",
     MessageCount |-> "message_count"]
ModelUsageItemTags == [Model |-> "model", Count |-> "count", Tokens |-> "tokens"]
NoTags == <<>>

\* The key a field is written under, and read from.
KeyOf(field, tags) == IF field \in DOMAIN tags THEN tags[field] ELSE field

\* A struct becomes an object with one member per field, under its key;
\* and an object is read back into the fields its keys name.
MarshalStruct(v, tags) ==
    [k \in {KeyOf(f, tags) : f \in DOMAIN v} |->
        v[CHOOSE f \in DOMAIN v : KeyOf(f, tags) = k]]
UnmarshalStruct(j, tags) ==
    LET FieldOf(k) == IF \E f \in DOMAIN tags : tags[f] = k
                      THEN CHOOSE f \in DOMAIN tags : tags[f] = k ELSE k
    IN  [f \in {FieldOf(k) : k \in DOMAIN j} |->
            j[CHOOSE k \in DOMAIN j : FieldOf(k) = f]]

\* A pointer to a struct: null when nil, the object otherwise.
JSONNull == [null |-> TRUE]
MarshalPtr(p, tags) ==
    IF p = {} THEN JSONNull ELSE [null |-> FALSE, value |-> MarshalStruct(Deref(p), tags)]
UnmarshalPtr(j, tags) == IF j.null THEN {} ELSE {UnmarshalStruct(j.value, tags)}

\* A map of pointers to structs: an object of objects under the same keys.
MarshalMap(map, tags) == [k \in DOMAIN map |-> MarshalStruct(map[k], tags)]
UnmarshalMap(j, tags) == [k \in DOMAIN j |-> UnmarshalStruct(j[k], tags)]

\* json.MarshalIndent(cf, "", "  "): every field of CacheFile is exported
\* and untagged; maps become objects under the same keys, arrays of
\* pointers become arrays of objects and nulls.
MarshalIndent(cf, off) ==
    [Version       |-> cf.Version,
     LastUpdate    |-> MarshalTime(cf.LastUpdate, off),
     TimeRange     |-> [Start |-> MarshalTime(cf.TimeRange.Start, off),
                        End   |-> MarshalTime(cf.TimeRange.End, off)],
     DailyStats    |-> MarshalMap(cf.DailyStats, NoTags),
     HourlyStats   |-> [h \in 0..23 |-> MarshalPtr(cf.HourlyStats[h], NoTags)],
     TotalMessages |-> cf.TotalMessages,
     TotalSessions |-> cf.TotalSessions,
     ProjectStats  |-> MarshalMap(cf.ProjectStats, ProjectStatItemTags),
     ModelUsage    |-> MarshalMap(cf.ModelUsage, ModelUsageItemTags),
     WeekdayStats  |-> [w \in 0..6 |-> MarshalPtr(cf.WeekdayStats[w], WeekdayItemTags)],
     MCPToolStats  |-> cf.MCPToolStats]

\* The document {}: it names no field.
EmptyObject == [empty |-> TRUE]

\* json.Unmarshal(data, &cache) of a document that is JSON: a field the
\* document does not name keeps its zero value.
Unmarshal(j) ==
    IF j = EmptyObject THEN EmptyCache
    ELSE [Version       |-> j.Version,
          LastUpdate    |-> UnmarshalTime(j.LastUpdate),
          TimeRange     |-> [Start |-> UnmarshalTime(j.TimeRange.Start),
                             End   |-> UnmarshalTime(j.TimeRange.End)],
          DailyStats    |-> UnmarshalMap(j.DailyStats, NoTags),
          HourlyStats   |-> [h \in 0..23 |-> UnmarshalPtr(j.HourlyStats[h], NoTags)],
          TotalMessages |-> j.TotalMessages,
          TotalSessions |-> j.TotalSessions,
          ProjectStats  |-> UnmarshalMap(j.ProjectStats, ProjectStatItemTags),
          ModelUsage    |-> UnmarshalMap(j.ModelUsage, ModelUsageItemTags),
          WeekdayStats  |-> [w \in 0..6 |-> UnmarshalPtr(j.WeekdayStats[w], WeekdayItemTags)],
          MCPToolStats  |-> j.MCPToolStats]

\* A file that holds a JSON document, and one that holds no JSON.
JSONFile(j) == [st |-> "ok", json |-> j]
Corrupt == [st |-> "corrupt"]

\* CacheFile.Save(path) on the file at path: os.WriteFile fails on a file
\* that cannot be written and leaves it as it is.
Save(cf, off, file) ==
    IF file.st = "denied" THEN [err |-> "write", file |-> file]
    ELSE [err |-> "none", file |-> JSONFile(MarshalIndent(cf, off))]

LoadCacheFileMutant(file) ==
    IF file.st = "absent" THEN [err |-> "notfound", cache |-> {}]
    ELSE IF file.st = "denied" THEN [err |-> "read", cache |-> {}]
    ELSE IF file.st = "corrupt" THEN [err |-> "none", cache |-> {EmptyCache}]
    ELSE [err |-> "none", cache |-> {Unmarshal(file.json)}]

\* LoadCacheFile(path): the error and the snapshot it returns.
LoadCacheFile(file) ==
    IF file.st = "absent" THEN [err |-> "notfound", cache |-> {}]
    ELSE IF file.st = "denied" THEN [err |-> "read", cache |-> {}]
    ELSE IF file.st = "corrupt" THEN [err |-> "parse", cache |-> {}]
    ELSE [err |-> "none", cache |-> {Unmarshal(file.json)}]

----------------------------------------------------------------------------
(* The snapshots the cache methods are called on: what a cache file or a   *)
(* caller's CacheFile value can hold.                                      *)

\* The keys of DailyStats: three dates and one key that is no date.
DateKeys == { DateStr(2026, 1, 6), DateStr(2026, 1, 7), DateStr(2026, 1, 8), TextStr }

\* Two tables of per-date counts; the first holds the counts of
\* TestCacheFileQueryByTimeRange.
DayCounts ==
    { [date \in DateKeys |->
          IF date = DateStr(2026, 1, 6) THEN [MessageCount |-> 50, SessionCount |-> 2]
          ELSE IF date = DateStr(2026, 1, 7) THEN [MessageCount |-> 80, SessionCount |-> 3]
          ELSE IF date = DateStr(2026, 1, 8) THEN [MessageCount |-> 100, SessionCount |-> 5]
          ELSE [MessageCount |-> 7, SessionCount |-> 1]],
      [date \in DateKeys |-> [MessageCount |-> 1, SessionCount |-> 1]] }

DailyStatsSets ==
    { [date \in D |-> [Date |-> date,
                       MessageCount |-> c[date].MessageCount,
                       SessionCount |-> c[date].SessionCount]] :
        D \in SUBSET DateKeys, c \in DayCounts }

SomeHourly ==
    [h \in 0..23 |->
        IF h = 9 THEN {[Hour |-> 9, MessageCount |-> 4, SessionCount |-> 0]}
        ELSE IF h = 20 THEN {[Hour |-> 20, MessageCount |-> 1, SessionCount |-> 0]}
        ELSE {}]

SomeWeekday ==
    [w \in 0..6 |-> IF w \in {0, 6}
                    THEN {[Weekday |-> w, MessageCount |-> w + 1]} ELSE {}]

\* The aggregates that do not vary with time: none, or some of each.
Globals ==
    { [HourlyStats |-> NilHourly, ProjectStats |-> EmptyMap, ModelUsage |-> EmptyMap,
       WeekdayStats |-> NilWeekday, MCPToolStats |-> EmptyMap],
      [HourlyStats |-> SomeHourly,
       ProjectStats |-> [proj \in {"/a", "Unknown"} |->
                           [Project |-> proj, MessageCount |-> 3, SessionCount |-> 1]],
       ModelUsage |-> [model \in {"opus"} |-> [Model |-> model, Count |-> 2, Tokens |-> 30]],
       WeekdayStats |-> SomeWeekday,
       MCPToolStats |-> [tool \in {"search::web"} |-> 2]] }

UpdateTimes == { ZeroTime, DateAt(2026, 1, 8, 12, 0, 0, 0) }

Snapshots ==
    { [Version |-> "1.0", LastUpdate |-> u,
       TimeRange |-> [Start |-> ZeroTime, End |-> ZeroTime],
       DailyStats |-> ds, HourlyStats |-> g.HourlyStats,
       TotalMessages |-> 1000, TotalSessions |-> 50,
       ProjectStats |-> g.ProjectStats, ModelUsage |-> g.ModelUsage,
       WeekdayStats |-> g.WeekdayStats, MCPToolStats |-> g.MCPToolStats] :
        u \in UpdateTimes, ds \in DailyStatsSets, g \in Globals }

\* The bounds of the queries.
QueryInstants ==
    { ZeroTime,
      DateAt(2026, 1, 6, 0, 0, 1, 0),
      DateAt(2026, 1, 7, 0, 0, 0, 0),
      DateAt(2026, 1, 8, 0, 0, 0, 0),
      DateAt(2026, 1, 8, 23, 59, 59, 0) }

InitCache ==
    /\ tz = 0
    /\ now = DateAt(2026, 1, 8, 12, 0, 0, 0)
    /\ req = NoRequest /\ tf = NoFilter /\ built = "none" /\ ferr = FALSE
    /\ resp = "none" /\ aggTf = {} /\ probe = {} /\ contained = FALSE
    /\ cache \in Snapshots
    /\ view = {}
    /\ qrange = [Start |-> ZeroTime, End |-> ZeroTime]
    /\ expArg = {}
    /\ expired = FALSE
    /\ IdleBuilder
    /\ IdleAgg
    /\ IdleCalls

\* cache.IsExpired(m)
CallIsExpired(m) ==
    /\ expArg' = {m}
    /\ expired' = IsExpired(cache, m)
    /\ UNCHANGED <<cache, view, qrange>>
    /\ UNCHANGED otherThanCache

\* cache.QueryByTimeRange(start, end)
CallQueryByTimeRange(start, end) ==
    /\ qrange' = [Start |-> start, End |-> end]
    /\ view' = {QueryByTimeRange(cache, start, end)}
    /\ UNCHANGED <<cache, expArg, expired>>
    /\ UNCHANGED otherThanCache

ModTimes == { cache.LastUpdate - 1, cache.LastUpdate, cache.LastUpdate + 1 }

NextCache ==
    \/ \E m \in IF IsZero(cache.LastUpdate)
                THEN {ZeroTime, DateAt(2026, 1, 8, 12, 0, 0, 0)} ELSE ModTimes :
          CallIsExpired(m)
    \/ \E start \in QueryInstants, end \in QueryInstants :
          CallQueryByTimeRange(start, end)

SpecCache == InitCache /\ [][NextCache]_vars

----------------------------------------------------------------------------
(* Claims about the snapshot cache.                                        *)

Result == Deref(view)

\* C7: IsExpired(m) is true if and only if m is strictly later than
\* LastUpdate; an equal or earlier m is not expired.
C7_ExpiredIffStrictlyLater ==
    \A m \in expArg : expired <=> m > cache.LastUpdate

\* IsExpired has been asked about the instant equal to LastUpdate.
C7_Witness ==
    /\ expArg = {cache.LastUpdate} /\ ~IsZero(cache.LastUpdate) /\ ~expired

\* The dates of the snapshot that lie in [start, end], both inclusive.
DatesBetween(start, end) ==
    { date \in DOMAIN cache.DailyStats :
        ~ParseFails(date) /\ start <= ParseDate(date) /\ ParseDate(date) <= end }

ViewHoldsExactly(dates) ==
    /\ DOMAIN Result.DailyStats = dates
    /\ \A date \in dates : Result.DailyStats[date] = cache.DailyStats[date]
    /\ Result.TotalMessages = SumField(cache.DailyStats, dates, "MessageCount")
    /\ Result.TotalSessions = SumField(cache.DailyStats, dates, "SessionCount")

\* C8 as stated: the view holds exactly the dates d with start <= d <= end,
\* and its totals are the sums over exactly those dates.
C8_ExactlyDatesBetween ==
    view # {} => ViewHoldsExactly(DatesBetween(qrange.Start, qrange.End))

\* C8 as amended: a zero start or a zero end is an absent bound, and a range
\* with both bounds zero holds every date.
C8_DatesInRangeZeroIsUnbounded ==
    view # {} =>
        ViewHoldsExactly(
            { date \in DOMAIN cache.DailyStats :
                /\ ~ParseFails(date)
                /\ (IsZero(qrange.Start) \/ qrange.Start <= ParseDate(date))
                /\ (IsZero(qrange.End) \/ ParseDate(date) <= qrange.End) })

\* The query of the test: 01-06/07/08 with 50/80/100 messages and the range
\* [01-07, 01-08 23:59:59] give 180.
C8_Witness ==
    /\ view # {}
    /\ {DateStr(2026, 1, 6), DateStr(2026, 1, 7), DateStr(2026, 1, 8)}
          \subseteq DOMAIN cache.DailyStats
    /\ cache.DailyStats[DateStr(2026, 1, 6)].MessageCount = 50
    /\ cache.DailyStats[DateStr(2026, 1, 7)].MessageCount = 80
    /\ cache.DailyStats[DateStr(2026, 1, 8)].MessageCount = 100
    /\ qrange = [Start |-> DateAt(2026, 1, 7, 0, 0, 0, 0),
                 End   |-> DateAt(2026, 1, 8, 23, 59, 59, 0)]
    /\ Result.TotalMessages = 180
    /\ Result.TotalSessions = 8

\* C9: whatever the range, the project totals, the model usage, the weekday
\* distribution, the tool-call counts and the hourly histogram of the view
\* equal those of the snapshot.
C9_GlobalsUnfiltered ==
    view # {} =>
        /\ Result.ProjectStats = cache.ProjectStats
        /\ Result.ModelUsage = cache.ModelUsage
        /\ Result.WeekdayStats = cache.WeekdayStats
        /\ Result.MCPToolStats = cache.MCPToolStats
        /\ Result.HourlyStats = cache.HourlyStats

\* A query whose range excludes every date of a snapshot that has global
\* aggregates.
C9_Witness ==
    /\ view # {}
    /\ DOMAIN cache.ModelUsage # {} /\ DOMAIN cache.ProjectStats # {}
    /\ DOMAIN cache.DailyStats # {}
    /\ DOMAIN Result.DailyStats = {}

----------------------------------------------------------------------------
(* cache_builder.go: GetLastDataModified, scanDirectory, NeedsRebuild.     *)

LaterMutant(a, b) == a

\* if info.ModTime().After(lastMod) { lastMod = info.ModTime() }
Later(a, b) == IF After(a, b) THEN a ELSE b

\* GetLastDataModified, the loop over history.jsonl and stats-cache.json:
\* a missing file is skipped, another Stat error ends the call.
RECURSIVE StatFiles(_, _)
StatFiles(files, lastMod) ==
    IF files = <<>> THEN [err |-> "none", lastMod |-> lastMod]
    ELSE LET f == Head(files)
         IN  IF f.st = "absent" THEN StatFiles(Tail(files), lastMod)
             ELSE IF f.st = "denied" THEN [err |-> "other", lastMod |-> lastMod]
             ELSE StatFiles(Tail(files), Later(f.mtime, lastMod))

\* scanDirectory: the error of os.ReadDir or of a nested scan ends the scan;
\* lastMod is updated in place through the pointer.
RECURSIVE scanDirectory(_, _), ScanEntries(_, _)
scanDirectory(d, lastMod) ==
    IF d.st = "absent" THEN [err |-> "notexist", lastMod |-> lastMod]
    ELSE IF d.st = "denied" THEN [err |-> "other", lastMod |-> lastMod]
    ELSE ScanEntries(d.entries, lastMod)

ScanEntries(entries, lastMod) ==
    IF entries = <<>> THEN [err |-> "none", lastMod |-> lastMod]
    ELSE LET e == Head(entries)
         IN  IF e.kind = "dir"
             THEN LET r == scanDirectory(e.dir, lastMod)
                  IN  IF r.err # "none" THEN r
                      ELSE ScanEntries(Tail(entries), r.lastMod)
             ELSE IF e.file.st # "ok" THEN ScanEntries(Tail(entries), lastMod)
             ELSE ScanEntries(Tail(entries), Later(e.file.mtime, lastMod))

\* The loop of GetLastDataModified over the directories debug and projects:
\* a directory that does not exist is no error.
RECURSIVE ScanDirs(_, _)
ScanDirs(dirs, lastMod) ==
    IF dirs = <<>> THEN [err |-> FALSE, lastMod |-> lastMod]
    ELSE LET r == scanDirectory(Head(dirs), lastMod)
         IN  IF r.err = "other" THEN [err |-> TRUE, lastMod |-> ZeroTime]
             ELSE ScanDirs(Tail(dirs), r.lastMod)

\* CacheBuilder.GetLastDataModified
GetLastDataModified(fs) ==
    LET r == StatFiles(<<fs.history, fs.stats>>, ZeroTime)
    IN  IF r.err # "none" THEN [err |-> TRUE, lastMod |-> ZeroTime]
        ELSE ScanDirs(<<fs.debug, fs.projects>>, r.lastMod)

\* LoadCacheFile: the error result.
LoadFails(cf) == LoadCacheFile(cf).err # "none"

\* cache.LastUpdate of the snapshot LoadCacheFile returns.
LoadedLastUpdate(cf) == Deref(LoadCacheFile(cf).cache).LastUpdate

NeedsRebuildMutant(cf, fs) ==
    IF cf.st = "absent" THEN TRUE
    ELSE IF LoadFails(cf) THEN TRUE
    ELSE LET m == GetLastDataModified(fs)
         IN  IF m.err THEN TRUE
             ELSE ~Before(m.lastMod, LoadedLastUpdate(cf))

\* CacheBuilder.NeedsRebuild
NeedsRebuild(cf, fs) ==
    IF cf.st = "absent" THEN TRUE
    ELSE IF LoadFails(cf) THEN TRUE
    ELSE LET m == GetLastDataModified(fs)
         IN  IF m.err THEN TRUE
             ELSE After(m.lastMod, LoadedLastUpdate(cf))

----------------------------------------------------------------------------
(* The cache file and the data directory change under the builder: the     *)
(* tool appends to its logs, snapshots are saved, files lose their         *)
(* permissions.                                                            *)

MaxTick == 2

StartOfTime == DateAt(2026, 1, 8, 12, 0, 0, 0)

\* A cache file holding a snapshot, as Save writes it where time.Local is
\* at offset off.
CacheFileOf(snap, off) == Save(snap, off, Absent).file

InitBuilder ==
    /\ tz = 0
    /\ now = StartOfTime
    /\ req = NoRequest /\ tf = NoFilter /\ built = "none" /\ ferr = FALSE
    /\ resp = "none" /\ aggTf = {} /\ probe = {} /\ contained = FALSE
    /\ IdleCache
    /\ IdleBuilder
    /\ IdleAgg
    /\ IdleCalls

\* Time passes.
Tick ==
    /\ now < StartOfTime + MaxTick
    /\ now' = now + 1
    /\ UNCHANGED builderVars
    /\ ret' = NoCall
    /\ UNCHANGED otherThanBuilder

\* The tool writes to one of its logs: the file gets the current time as its
\* modification time, and is created with its directories when missing.
WriteData(path) ==
    /\ \/ /\ path = "history.jsonl"
          /\ dataFs' = [dataFs EXCEPT !.history = File(now)]
       \/ /\ path = "stats-cache.json"
          /\ dataFs' = [dataFs EXCEPT !.stats = File(now)]
       \/ /\ path = "debug/a.txt"
          /\ dataFs.debug.st # "denied"
          /\ dataFs' = [dataFs EXCEPT !.debug = Dir(<<FileEntry(File(now))>>)]
       \/ /\ path = "projects/p/s.jsonl"
          /\ IF dataFs.projects.st = "ok"
             THEN dataFs.projects.entries[1].dir.st = "ok" ELSE TRUE
          /\ dataFs' = [dataFs EXCEPT
                          !.projects = Dir(<<DirEntry(Dir(<<FileEntry(File(now))>>))>>)]
    /\ needs' = {}
    /\ UNCHANGED <<cacheFile, now>>
    /\ ret' = NoCall
    /\ UNCHANGED otherThanBuilder

\* A directory of the data tree loses its read permission.
DenyDir(path) ==
    /\ \/ /\ path = "debug"
          /\ dataFs.debug.st = "ok"
          /\ dataFs' = [dataFs EXCEPT !.debug = Denied]
       \/ /\ path = "projects/p"
          /\ dataFs.projects.st = "ok"
          /\ dataFs.projects.entries[1].dir.st = "ok"
          /\ dataFs' = [dataFs EXCEPT !.projects = Dir(<<DirEntry(Denied)>>)]
    /\ needs' = {}
    /\ UNCHANGED <<cacheFile, now>>
    /\ ret' = NoCall
    /\ UNCHANGED otherThanBuilder

\* CacheFile.Save(CachePath) of a snapshot whose LastUpdate is u.
SaveSnapshot(u) ==
    /\ cacheFile.st # "denied"
    /\ cacheFile' = CacheFileOf([EmptyCache EXCEPT !.Version = "1.0", !.LastUpdate = u], tz)
    /\ needs' = {}
    /\ UNCHANGED <<dataFs, now>>
    /\ ret' = NoCall
    /\ UNCHANGED otherThanBuilder

\* The cache file is removed, truncated to something that is no JSON, or
\* made unreadable.
DamageCache(how) ==
    /\ cacheFile.st # how
    /\ how = "absent" \/ cacheFile.st # "absent"
    /\ cacheFile' = [st |-> how]
    /\ needs' = {}
    /\ UNCHANGED <<dataFs, now>>
    /\ ret' = NoCall
    /\ UNCHANGED otherThanBuilder

\* builder.NeedsRebuild()
CallNeedsRebuild ==
    /\ needs' = {NeedsRebuild(cacheFile, dataFs)}
    /\ UNCHANGED <<cacheFile, dataFs, now>>
    /\ ret' = NoCall
    /\ UNCHANGED otherThanBuilder

\* builder.GetLastDataModified()
CallGetLastDataModified ==
    /\ ret' = [op |-> "GetLastDataModified", result |-> GetLastDataModified(dataFs),
               data |-> dataFs]
    /\ UNCHANGED <<cacheFile, dataFs, needs, now, loaded>>
    /\ UNCHANGED <<tz, req, tf, built, ferr, resp, aggTf, probe, contained, cacheVars, aggVars,
                   serveVars, scanVars, heapVars>>

DataPaths == {"history.jsonl", "stats-cache.json", "debug/a.txt", "projects/p/s.jsonl"}

NextBuilder ==
    \/ Tick
    \/ \E path \in DataPaths : WriteData(path)
    \/ \E path \in {"debug", "projects/p"} : DenyDir(path)
    \/ \E u \in {ZeroTime} \cup (StartOfTime .. now) : SaveSnapshot(u)
    \/ \E how \in {"absent", "corrupt", "denied"} : DamageCache(how)
    \/ CallNeedsRebuild
    \/ CallGetLastDataModified

SpecBuilder == InitBuilder /\ [][NextBuilder]_vars

----------------------------------------------------------------------------
(* Claims about the cache builder.                                         *)

\* The modification times of the files of the data tree that can be seen.
RECURSIVE MTimesUnder(_)
MTimesUnder(d) ==
    IF d.st # "ok" THEN {}
    ELSE UNION { IF d.entries[i].kind = "dir" THEN MTimesUnder(d.entries[i].dir)
                 ELSE IF d.entries[i].file.st = "ok" THEN {d.entries[i].file.mtime}
                 ELSE {} : i \in DOMAIN d.entries }

WatchedMTimes ==
    { f.mtime : f \in { g \in {dataFs.history, dataFs.stats} : g.st = "ok" } }
      \cup MTimesUnder(dataFs.debug) \cup MTimesUnder(dataFs.projects)

SomeFileIsNewer == \E m \in WatchedMTimes : m > LoadedLastUpdate(cacheFile)

\* A watched file or directory exists and cannot be read.
ScanIsDenied ==
    \/ dataFs.history.st = "denied" \/ dataFs.stats.st = "denied"
    \/ dataFs.debug.st = "denied"
    \/ dataFs.projects.st = "denied"
    \/ /\ dataFs.projects.st = "ok"
       /\ \E i \in DOMAIN dataFs.projects.entries :
             /\ dataFs.projects.entries[i].kind = "dir"
             /\ dataFs.projects.entries[i].dir.st = "denied"

\* C15: GetLastDataModified, when it returns no error, returns the latest
\* modification time of history.jsonl, stats-cache.json and the files under
\* debug/ and projects/ that exist, and the zero time when none exists; and
\* it returns no error unless a watched file or directory exists and cannot
\* be read: what does not exist is skipped.
C15_LastModifiedIsMaximum ==
    ret.op = "GetLastDataModified" =>
        /\ ~ScanIsDenied => ~ret.result.err
        /\ ~ret.result.err =>
              IF WatchedMTimes = {} THEN ret.result.lastMod = ZeroTime
              ELSE /\ ret.result.lastMod \in WatchedMTimes
                   /\ \A t \in WatchedMTimes : t <= ret.result.lastMod

\* GetLastDataModified has returned the time of history.jsonl, which is
\* later than that of a file under projects/ scanned after it, while
\* stats-cache.json does not exist.
C15_Witness ==
    /\ ret.op = "GetLastDataModified" /\ ~ret.result.err
    /\ dataFs.stats.st = "absent"
    /\ dataFs.history.st = "ok"
    /\ ret.result.lastMod = dataFs.history.mtime
    /\ \E t \in MTimesUnder(dataFs.projects) : t < dataFs.history.mtime

\* C10 as stated: NeedsRebuild is true when the cache file is absent, is
\* unreadable or corrupt, or a watched file is strictly newer than
\* LastUpdate, and false when the snapshot loads and no watched file is
\* newer.
C10_RebuildIffMissingOrStale ==
    \A r \in needs : r <=> (LoadFails(cacheFile) \/ SomeFileIsNewer)

\* C10 as amended: NeedsRebuild is also true when a watched file or
\* directory exists and cannot be read.
C10_RebuildIffMissingStaleOrUnscannable ==
    \A r \in needs : r <=> (LoadFails(cacheFile) \/ ScanIsDenied \/ SomeFileIsNewer)

\* NeedsRebuild has answered false for a snapshot that loads while a data
\* file has exactly the modification time LastUpdate.
C10_Witness ==
    /\ needs = {FALSE}
    /\ cacheFile.st = "ok"
    /\ LoadedLastUpdate(cacheFile) \in WatchedMTimes

----------------------------------------------------------------------------
(* The aggregation passes: ParseProjectsConcurrentOnce over the files of   *)
(* projects/, and ParseHistoryConcurrent over history.jsonl.               *)

MaxLines == 3
MaxHistoryLines == 3

\* The batch size of ParseHistoryConcurrent, 1000 in the source, scaled to
\* the length of the files of the model.
batchSize == 2

\* runtime.NumCPU(): one core, which gives a semaphore of one slot and one
\* worker, or four, which gives four slots and two workers.
NumCPUs == {1, 4}

SeqsUpTo(S, n) == UNION { [1..k -> S] : k \in 0..n }

Monday1000 == DateAt(2026, 1, 5, 10, 0, 0, 0)
Wednesday2015 == DateAt(2026, 1, 7, 20, 15, 0, 0)
Saturday1730 == DateAt(2026, 1, 10, 17, 30, 0, 0)

NoTime == [sec |-> 0, off |-> 0]

\* The lines a transcript file is made of.
ProjectLines ==
    { ProjectRecord("assistant", "/a", "s1", TRUE, [sec |-> Monday1000, off |-> 0],
                    TRUE, "opus", 10, 5),
      \* written at 01:30 on Sunday the 11th in a zone eight hours east
      ProjectRecord("assistant", "", "s2", TRUE, [sec |-> Saturday1730, off |-> 8 * 3600],
                    TRUE, "", 0, 0),
      ProjectRecord("assistant", "/b", "s2", TRUE, [sec |-> Wednesday2015, off |-> 0],
                    FALSE, "", 0, 0),
      ProjectRecord("user", "/a", "s1", TRUE, [sec |-> Wednesday2015, off |-> 0],
                    FALSE, "", 0, 0),
      ProjectRecord("assistant", "/a", "s1", FALSE, NoTime, TRUE, "opus", 7, 7),
      SyntaxErrorLine }

ProjectFiles == {"p/s1.jsonl", "q/s2.jsonl"}

TextFile(lines) == [st |-> "ok", lines |-> lines]

LinesOf(file) == IF file.st = "ok" THEN file.lines ELSE <<>>

\* projects/ is missing, or holds the two files with at most MaxLines lines
\* between them; a file may be one that os.Open refuses.
ProjectCorpora ==
    {Absent} \cup
    { [st |-> "ok", files |-> fs] :
        fs \in { g \in [ProjectFiles -> {Denied} \cup
                            {TextFile(l) : l \in SeqsUpTo(ProjectLines, MaxLines)}] :
                   Len(LinesOf(g["p/s1.jsonl"])) + Len(LinesOf(g["q/s2.jsonl"])) <= MaxLines } }

HistoryLines ==
    { HistoryRecord(<<"/commit", Blank, "-m">>, Monday1000, 250),
      HistoryRecord(<<"/help">>, Saturday1730, 0),
      HistoryRecord(<<"hello", Blank, "/help">>, Monday1000 + 60, 999),
      TypeErrorLine,
      SyntaxErrorLine }

HistoryCorpora ==
    {Absent} \cup { TextFile(l) : l \in SeqsUpTo(HistoryLines, MaxHistoryLines) }

\* The filters a pass is run with: none, and the days from the 6th of
\* January 2026 to the end of the month.
PassFilters ==
    { NoFilter,
      [Start |-> {DateAt(2026, 1, 6, 0, 0, 0, 0)}, End |-> {DateAt(2026, 1, 31, 23, 59, 59, 0)}] }

\* time.Local plays no part in the pass over the transcripts, whose
\* timestamps carry their own offsets.
InitAgg ==
    /\ pass \in {"projects", "history"}
    /\ tz \in (IF pass = "history" THEN {0, 8 * 3600} ELSE {0})
    /\ now = DateAt(2026, 2, 1, 0, 30, 0, 0)
    /\ req = NoRequest /\ built = "none" /\ ferr = FALSE
    /\ resp = "none" /\ aggTf = {} /\ probe = {} /\ contained = FALSE
    /\ tf \in PassFilters
    /\ IdleCache
    /\ IdleBuilder
    /\ ncpu \in NumCPUs
    /\ corpus \in (IF pass = "projects" THEN ProjectCorpora ELSE HistoryCorpora)
    /\ mainPc = "start"
    /\ pc = <<>>
    /\ dec = <<>>
    /\ cur = <<>>
    /\ sem = 0
    /\ batches = NoChannel
    /\ mu = {}
    /\ agg = NewAggregate
    /\ IdleCalls

\* json.NewDecoder(f)
NewDecoder == [pos |-> 0, err |-> "none"]

\* The outcome of decoder.Decode on a file: the saved error if there is
\* one, io.EOF at the end, the error of a line that is no JSON (both saved
\* by the decoder), or the next value.
DecodeNext(d, lines) ==
    IF d.err # "none" THEN [d |-> d, err |-> d.err]
    ELSE IF d.pos >= Len(lines) THEN [d |-> [d EXCEPT !.err = "eof"], err |-> "eof"]
    ELSE IF lines[d.pos + 1].kind = "syntax"
         THEN [d |-> [d EXCEPT !.err = "syntax"], err |-> "syntax"]
    ELSE IF lines[d.pos + 1].kind = "typeerr"
         THEN [d |-> [d EXCEPT !.pos = @ + 1], err |-> "type"]
    ELSE [d |-> [d EXCEPT !.pos = @ + 1], err |-> "none", record |-> lines[d.pos + 1]]

\* ParseProjectsConcurrentOnce up to wg.Wait(): reads the directory,
\* returns the error if it cannot, and starts one goroutine per file.
StartProjects ==
    /\ pass = "projects"
    /\ mainPc = "start"
    /\ IF corpus.st # "ok"
       THEN /\ mainPc' = "error"
            /\ UNCHANGED <<pc, agg>>
       ELSE /\ mainPc' = "wait"
            /\ pc' = [f \in ProjectFiles |-> "acquire"]
            /\ agg' = NewAggregate
    /\ UNCHANGED <<pass, ncpu, corpus, dec, cur, sem, batches, mu>>
    /\ UNCHANGED otherThanAgg

AcquireAndOpenMutant(f) ==
    /\ pass = "projects"
    /\ f \in DOMAIN pc
    /\ pc[f] = "acquire"
    /\ IF corpus.files[f].st = "ok"
       THEN /\ sem' = sem + 1
            /\ dec' = (f :> NewDecoder) @@ dec
            /\ pc' = [pc EXCEPT ![f] = "decode"]
       ELSE /\ pc' = [pc EXCEPT ![f] = "done"]
            /\ UNCHANGED <<sem, dec>>
    /\ UNCHANGED <<pass, ncpu, corpus, mainPc, cur, batches, mu, agg>>
    /\ UNCHANGED otherThanAgg

\* sem <- struct{}{} and the os.Open of parseProjectFileAggregate; a file
\* that does not open ends the task, which gives its slot back.
AcquireAndOpen(f) ==
    /\ pass = "projects"
    /\ f \in DOMAIN pc
    /\ pc[f] = "acquire"
    /\ sem < ncpu
    /\ IF corpus.files[f].st = "ok"
       THEN /\ sem' = sem + 1
            /\ dec' = (f :> NewDecoder) @@ dec
            /\ pc' = [pc EXCEPT ![f] = "decode"]
       ELSE /\ pc' = [pc EXCEPT ![f] = "done"]
            /\ UNCHANGED <<sem, dec>>
    /\ UNCHANGED <<pass, ncpu, corpus, mainPc, cur, batches, mu, agg>>
    /\ UNCHANGED otherThanAgg

\* One turn of the loop of parseProjectFileAggregate up to agg.mu.Lock():
\* at io.EOF the task returns, gives its slot back and is done; any
\* other error, a timestamp that does not parse, an instant outside the
\* filter and a type other than "assistant" go to the next turn.
DecodeProjectRecord(f) ==
    /\ pass = "projects"
    /\ f \in DOMAIN pc
    /\ pc[f] = "decode"
    /\ LET r == DecodeNext(dec[f], corpus.files[f].lines)
       IN  /\ dec' = [dec EXCEPT ![f] = r.d]
           /\ IF r.err = "eof"
              THEN /\ pc' = [pc EXCEPT ![f] = "done"]
                   /\ sem' = sem - 1
                   /\ cur' = cur
              ELSE IF r.err = "none" /\ Counted(r.record, tf)
              THEN /\ pc' = [pc EXCEPT ![f] = "lock"]
                   /\ cur' = (f :> r.record) @@ cur
                   /\ sem' = sem
              ELSE UNCHANGED <<pc, cur, sem>>
    /\ UNCHANGED <<pass, ncpu, corpus, mainPc, batches, mu, agg>>
    /\ UNCHANGED otherThanAgg

LockMutant(t) ==
    /\ t \in DOMAIN pc
    /\ pc[t] = "lock"
    /\ mu' = {t}
    /\ pc' = [pc EXCEPT ![t] = "locked"]
    /\ UNCHANGED <<pass, ncpu, corpus, mainPc, dec, cur, sem, batches, agg>>
    /\ UNCHANGED otherThanAgg

\* mu.Lock(), by a file task or by a worker of the history pass.
Lock(t) ==
    /\ t \in DOMAIN pc
    /\ pc[t] = "lock"
    /\ mu = {}
    /\ mu' = {t}
    /\ pc' = [pc EXCEPT ![t] = "locked"]
    /\ UNCHANGED <<pass, ncpu, corpus, mainPc, dec, cur, sem, batches, agg>>
    /\ UNCHANGED otherThanAgg

CountAndUnlockMutant(f) ==
    /\ pass = "projects"
    /\ f \in DOMAIN pc
    /\ pc[f] = "locked"
    /\ agg' = ApplyRecord(agg, cur[f])
    /\ mu' = mu
    /\ pc' = [pc EXCEPT ![f] = "decode"]
    /\ UNCHANGED <<pass, ncpu, corpus, mainPc, dec, cur, sem, batches>>
    /\ UNCHANGED otherThanAgg

\* The critical section of parseProjectFileAggregate and agg.mu.Unlock().
CountAndUnlock(f) ==
    /\ pass = "projects"
    /\ f \in DOMAIN pc
    /\ pc[f] = "locked"
    /\ agg' = ApplyRecord(agg, cur[f])
    /\ mu' = {}
    /\ pc' = [pc EXCEPT ![f] = "decode"]
    /\ UNCHANGED <<pass, ncpu, corpus, mainPc, dec, cur, sem, batches>>
    /\ UNCHANGED otherThanAgg

\* wg.Wait() has returned: aggregate.finalize() and the return.
FinalizeProjects ==
    /\ pass = "projects"
    /\ mainPc = "wait"
    /\ \A f \in DOMAIN pc : pc[f] = "done"
    /\ \E projects \in ListsOf(agg.ProjectStats), models \in ListsOf(agg.ModelUsage) :
          /\ Descending(projects, "MessageCount")
          /\ Descending(models, "Count")
          /\ agg' = Finalized(agg, projects, models)
    /\ mainPc' = "done"
    /\ UNCHANGED <<pass, ncpu, corpus, pc, dec, cur, sem, batches, mu>>
    /\ UNCHANGED otherThanAgg

Workers == {"w1", "w2"}

\* The workers ParseHistoryConcurrent starts.
WorkersOf(n) == IF getWorkerCount(n) = 1 THEN {"w1"} ELSE Workers

NoCounts == [localCmds |-> EmptyMap, localHourly |-> EmptyMap]

\* ParseHistoryConcurrent up to wg.Wait(): opens the file, returns the
\* error if it cannot, and starts the producer and the workers.
StartHistory ==
    /\ pass = "history"
    /\ mainPc = "start"
    /\ IF corpus.st # "ok"
       THEN /\ mainPc' = "error"
            /\ UNCHANGED <<pc, dec, cur, batches, agg>>
       ELSE /\ mainPc' = "wait"
            /\ batches' = NoChannel
            /\ dec' = [t \in {"producer"} |-> NewDecoder]
            /\ pc' = [t \in {"producer"} \cup WorkersOf(ncpu) |->
                        IF t = "producer" THEN "decode" ELSE "receive"]
            /\ cur' = [t \in {"producer"} \cup WorkersOf(ncpu) |->
                        IF t = "producer" THEN [batch |-> <<>>] ELSE NoCounts]
            /\ agg' = [cmdCounts |-> EmptyMap, hourlyCounts |-> EmptyMap, cmdStats |-> <<>>]
    /\ UNCHANGED <<pass, ncpu, corpus, sem, mu>>
    /\ UNCHANGED otherThanAgg

\* One turn of the producer's loop up to a send: at io.EOF it goes to send
\* what is left, or closes the channel when nothing is; any other error
\* and an instant outside the filter go to the next turn; a record that
\* fills the batch goes to send it.
Produce ==
    /\ pass = "history"
    /\ "producer" \in DOMAIN pc
    /\ pc["producer"] = "decode"
    /\ LET r == DecodeNext(dec["producer"], corpus.lines)
           batch == cur["producer"].batch
       IN  /\ dec' = [dec EXCEPT !["producer"] = r.d]
           /\ IF r.err = "eof"
              THEN IF Len(batch) > 0
                   THEN /\ pc' = [pc EXCEPT !["producer"] = "flush"]
                        /\ UNCHANGED <<cur, batches>>
                   ELSE /\ pc' = [pc EXCEPT !["producer"] = "done"]
                        /\ batches' = [batches EXCEPT !.closed = TRUE]
                        /\ cur' = cur
              ELSE IF r.err = "none" /\ Contains(tf, UnixSeconds(r.record.Timestamp))
              THEN /\ cur' = [cur EXCEPT !["producer"].batch = Append(@, r.record)]
                   /\ pc' = [pc EXCEPT !["producer"] =
                               IF Len(batch) + 1 >= batchSize THEN "send" ELSE "decode"]
                   /\ batches' = batches
              ELSE UNCHANGED <<pc, cur, batches>>
    /\ UNCHANGED <<pass, ncpu, corpus, mainPc, sem, mu, agg>>
    /\ UNCHANGED otherThanAgg

SendMutant ==
    /\ pass = "history"
    /\ "producer" \in DOMAIN pc
    /\ pc["producer"] \in {"send", "flush"}
    /\ Len(batches.q) < ncpu
    /\ batches' = [q |-> Append(batches.q, cur["producer"].batch),
                   closed |-> pc["producer"] = "flush"]
    /\ cur' = cur
    /\ pc' = [pc EXCEPT !["producer"] = IF @ = "flush" THEN "done" ELSE "decode"]
    /\ UNCHANGED <<pass, ncpu, corpus, mainPc, dec, sem, mu, agg>>
    /\ UNCHANGED otherThanAgg

\* batches <- batch, which waits for room in the channel; after the send at
\* io.EOF the producer closes the channel and is done.
Send ==
    /\ pass = "history"
    /\ "producer" \in DOMAIN pc
    /\ pc["producer"] \in {"send", "flush"}
    /\ Len(batches.q) < ncpu
    /\ batches' = [q |-> Append(batches.q, cur["producer"].batch),
                   closed |-> pc["producer"] = "flush"]
    /\ cur' = [cur EXCEPT !["producer"].batch = <<>>]
    /\ pc' = [pc EXCEPT !["producer"] = IF @ = "flush" THEN "done" ELSE "decode"]
    /\ UNCHANGED <<pass, ncpu, corpus, mainPc, dec, sem, mu, agg>>
    /\ UNCHANGED otherThanAgg

\* One turn of "for batch := range batches": the worker takes a batch and
\* counts its records in its own maps, or finds the channel closed and
\* empty and goes to merge.
Receive(w) ==
    /\ pass = "history"
    /\ w \in DOMAIN pc
    /\ pc[w] = "receive"
    /\ IF batches.q # <<>>
       THEN /\ batches' = [batches EXCEPT !.q = Tail(@)]
            /\ cur' = [cur EXCEPT ![w] = CountBatch(@, Head(batches.q), tz)]
            /\ pc' = pc
       ELSE /\ batches.closed
            /\ pc' = [pc EXCEPT ![w] = "lock"]
            /\ UNCHANGED <<batches, cur>>
    /\ UNCHANGED <<pass, ncpu, corpus, mainPc, dec, sem, mu, agg>>
    /\ UNCHANGED otherThanAgg

\* The merge of a worker's maps into the shared ones and cmdMu.Unlock().
MergeAndUnlock(w) ==
    /\ pass = "history"
    /\ w \in DOMAIN pc
    /\ pc[w] = "locked"
    /\ agg' = [agg EXCEPT !.cmdCounts = MergeCounts(@, cur[w].localCmds),
                          !.hourlyCounts = MergeCounts(@, cur[w].localHourly)]
    /\ mu' = {}
    /\ pc' = [pc EXCEPT ![w] = "done"]
    /\ UNCHANGED <<pass, ncpu, corpus, mainPc, dec, cur, sem, batches>>
    /\ UNCHANGED otherThanAgg

\* wg.Wait() has returned: the commands are put in a slice, sorted by
\* count, and returned with the hourly counts.
FinishHistory ==
    /\ pass = "history"
    /\ mainPc = "wait"
    /\ \A t \in DOMAIN pc : pc[t] = "done"
    /\ \E cmdStats \in ListsOf(CommandStatsOf(agg.cmdCounts)) :
          /\ Descending(cmdStats, "Count")
          /\ agg' = [agg EXCEPT !.cmdStats = cmdStats]
    /\ mainPc' = "done"
    /\ UNCHANGED <<pass, ncpu, corpus, pc, dec, cur, sem, batches, mu>>
    /\ UNCHANGED otherThanAgg

NextAgg ==
    \/ StartProjects
    \/ \E f \in ProjectFiles : AcquireAndOpen(f)
    \/ \E f \in ProjectFiles : DecodeProjectRecord(f)
    \/ \E t \in ProjectFiles \cup Workers : Lock(t)
    \/ \E f \in ProjectFiles : CountAndUnlock(f)
    \/ FinalizeProjects
    \/ StartHistory
    \/ Produce
    \/ Send
    \/ \E w \in Workers : Receive(w)
    \/ \E w \in Workers : MergeAndUnlock(w)
    \/ FinishHistory

SpecAgg == InitAgg /\ [][NextAgg]_vars

----------------------------------------------------------------------------
(* Claims about the aggregation passes.                                    *)

RECURSIVE SumMessageCount(_)
SumMessageCount(list) ==
    IF list = <<>> THEN 0 ELSE Head(list).MessageCount + SumMessageCount(Tail(list))

\* C1: after a complete run of ParseProjectsConcurrentOnce, finalize
\* included, the message counts of the daily-activity list add up to the
\* same number as the message counts of the project list, whatever the
\* files hold, whatever the filter, and however the file tasks interleave.
C1_DailySumEqualsProjectSum ==
    (pass = "projects" /\ mainPc = "done") =>
        SumMessageCount(agg.DailyActivityList) = SumMessageCount(agg.Projects)

HoldsCounted(file) ==
    \E i \in DOMAIN LinesOf(file) : Counted(LinesOf(file)[i], tf)

HoldsSkipped(file) ==
    \E i \in DOMAIN LinesOf(file) : ~Counted(LinesOf(file)[i], tf)

\* A run on four cores has finished in which both files held a counted
\* record, one held a skipped line, and two projects and two days came out.
C1_Witness ==
    /\ pass = "projects"
    /\ mainPc = "done"
    /\ ncpu = 4
    /\ \A f \in ProjectFiles : HoldsCounted(corpus.files[f])
    /\ \E f \in ProjectFiles : HoldsSkipped(corpus.files[f])
    /\ Len(agg.Projects) = 2
    /\ Len(agg.DailyActivityList) = 2
    /\ SumMessageCount(agg.Projects) = 2

\* The totals of the transcripts read one file after the other, one line
\* after the other, by a single task.
RECURSIVE SequentialLines(_, _, _)
SequentialLines(a, lines, f) ==
    IF lines = <<>> THEN a
    ELSE SequentialLines(IF Counted(Head(lines), f) THEN ApplyRecord(a, Head(lines)) ELSE a,
                         Tail(lines), f)

SequentialProjects ==
    SequentialLines(SequentialLines(NewAggregate, LinesOf(corpus.files["p/s1.jsonl"]), tf),
                    LinesOf(corpus.files["q/s2.jsonl"]), tf)

\* The totals of history.jsonl read line after line by a single task.
RECURSIVE SequentialHistory(_, _)
SequentialHistory(local, lines) ==
    IF lines = <<>> THEN local
    ELSE SequentialHistory(
             IF Head(lines).kind = "record"
                /\ Contains(tf, UnixSeconds(Head(lines).Timestamp))
             THEN CountHistoryRecord(local, Head(lines), tz) ELSE local,
             Tail(lines))

Elements(list) == { list[i] : i \in DOMAIN list }
Values(map) == { map[k] : k \in DOMAIN map }

ProjectTotalsAre(expected) ==
    /\ agg.ProjectStats = expected.ProjectStats
    /\ agg.DailyActivity = expected.DailyActivity
    /\ agg.HourlyCounts = expected.HourlyCounts
    /\ agg.WeekdayData = expected.WeekdayData
    /\ agg.ModelUsage = expected.ModelUsage
    /\ Elements(agg.Projects) = Values(expected.ProjectStats)
    /\ Len(agg.Projects) = Cardinality(DOMAIN expected.ProjectStats)
    /\ agg.DailyActivityList = DailyList(expected.DailyActivity)
    /\ Elements(agg.WeekdayStats) = Values(expected.WeekdayData)
    /\ agg.HourlyData = HourlyList(expected.HourlyCounts)
    /\ Elements(agg.ModelUsageList) = Values(expected.ModelUsage)
    /\ Len(agg.ModelUsageList) = Cardinality(DOMAIN expected.ModelUsage)

HistoryTotalsAre(expected) ==
    /\ agg.cmdCounts = expected.localCmds
    /\ agg.hourlyCounts = expected.localHourly
    /\ Elements(agg.cmdStats) = Values(CommandStatsOf(expected.localCmds))
    /\ Len(agg.cmdStats) = Cardinality(DOMAIN expected.localCmds)

\* C2: the totals a complete pass returns (messages per project and per
\* day, per hour and per weekday, requests and tokens per model, uses per
\* command) are those of reading the same input under the same filter with
\* a single task, line after line: they depend on the input and the filter
\* alone, not on the number of cores or workers nor on the interleaving.
C2_TotalsDependOnInputAlone ==
    mainPc = "done" =>
        IF pass = "projects"
        THEN ProjectTotalsAre(SequentialProjects)
        ELSE HistoryTotalsAre(SequentialHistory(NoCounts, corpus.lines))

\* A history pass has finished in which two workers each counted a batch,
\* both counted the same command and the same hour, and the filter let
\* every record through.
C2_Witness ==
    /\ pass = "history"
    /\ mainPc = "done"
    /\ \A w \in Workers :
          /\ w \in DOMAIN cur
          /\ "/commit" \in DOMAIN cur[w].localCmds
    /\ agg.cmdCounts["/commit"] = 3

\* The passes under the Go scheduler: a goroutine that can take a step
\* takes one in the end.
SpecAggFair == SpecAgg /\ WF_vars(NextAgg)

\* C18: a pass over input that can be read returns in the end, with the
\* totals of the same input without the lines that do not decode and the
\* files that do not open: what follows a malformed line is counted.
C18_MalformedInputIsSkipped ==
    (corpus.st = "ok") =>
        <>(/\ mainPc = "done"
           /\ IF pass = "projects"
              THEN ProjectTotalsAre(SequentialProjects)
              ELSE HistoryTotalsAre(SequentialHistory(NoCounts, corpus.lines)))

\* The lines of history.jsonl that are records the filter holds and whose
\* display text begins with the word cmd, a word that starts with "/".
CommandPlaces(cmd) ==
    { i \in DOMAIN corpus.lines :
        /\ corpus.lines[i].kind = "record"
        /\ Contains(tf, corpus.lines[i].Timestamp.sec)
        /\ Len(corpus.lines[i].Display) > 0
        /\ corpus.lines[i].Display[1] \in SlashWords
        /\ corpus.lines[i].Display[1] = cmd }

\* C22: a history record the filter holds is counted in the command
\* statistics if and only if its display text starts with "/", and then
\* adds one to the count of its first word: after a complete pass the
\* commands are the first words of such records, each with the number of
\* such records, and a plain message makes no entry.
C22_CommandsAreSlashRecords ==
    (pass = "history" /\ mainPc = "done") =>
        /\ DOMAIN agg.cmdCounts = { cmd \in SlashWords : CommandPlaces(cmd) # {} }
        /\ \A cmd \in DOMAIN agg.cmdCounts :
              agg.cmdCounts[cmd] = Cardinality(CommandPlaces(cmd))
        /\ Elements(agg.cmdStats) =
              { [Command |-> cmd, Count |-> Cardinality(CommandPlaces(cmd))] :
                  cmd \in DOMAIN agg.cmdCounts }
        /\ Len(agg.cmdStats) = Cardinality(DOMAIN agg.cmdCounts)

\* A pass without a filter over one "/help" line and one plain message has
\* returned the one entry {/help, 1}.
C22_Witness ==
    /\ pass = "history"
    /\ mainPc = "done"
    /\ tf = NoFilter
    /\ corpus.lines = << HistoryRecord(<<"/help">>, Saturday1730, 0),
                         HistoryRecord(<<"hello", Blank, "/help">>, Monday1000 + 60, 999) >>
    /\ agg.cmdStats = << [Command |-> "/help", Count |-> 1] >>

\* How far a worker has come: it drains the channel, asks for cmdMu, holds
\* it, has merged and released it.
WorkerRank(at) ==
    IF at = "receive" THEN 0 ELSE IF at = "lock" THEN 1 ELSE IF at = "locked" THEN 2 ELSE 3

\* The workers of the running history pass.
Merging == IF pass = "history" /\ mainPc = "wait" THEN DOMAIN pc \cap Workers ELSE {}

\* C30: while a worker drains the batch channel it writes to its own maps
\* only; the shared maps are written by a worker that holds cmdMu, after
\* the channel is closed and empty, and each worker goes through that
\* section once (it takes the mutex once and never again after it has
\* merged), no two workers being in it together.
C30_WorkersMergeOnceUnderMutex ==
    [][(pass = "history" /\ mainPc = "wait") =>
          /\ (agg'.cmdCounts # agg.cmdCounts \/ agg'.hourlyCounts # agg.hourlyCounts) =>
                \E w \in Merging :
                   /\ mu = {w}
                   /\ pc[w] = "locked" /\ pc'[w] = "done"
                   /\ batches.closed /\ batches.q = <<>>
                   /\ \A t \in DOMAIN pc : t # w => pc'[t] = pc[t]
          /\ \A w \in Merging :
                /\ (pc[w] = "receive" /\ cur'[w] # cur[w]) =>
                      /\ agg' = agg
                      /\ \A t \in DOMAIN cur : t \in Workers /\ t # w => cur'[t] = cur[t]
                /\ pc[w] # "receive" => cur'[w] = cur[w]
                /\ WorkerRank(pc'[w]) \in {WorkerRank(pc[w]), WorkerRank(pc[w]) + 1}
                /\ (pc[w] = "lock" /\ pc'[w] = "locked") => mu = {} /\ mu' = {w}
                /\ pc[w] = "locked" => mu = {w}
          /\ Cardinality({w \in Merging : pc[w] = "locked"}) <= 1]_vars

\* One worker holds cmdMu with what it has counted while the other, which
\* has counted a batch too, waits for it.
C30_Witness ==
    /\ pass = "history"
    /\ mainPc = "wait"
    /\ pc["producer"] = "done"
    /\ mu = {"w1"}
    /\ "w2" \in DOMAIN pc
    /\ pc["w1"] = "locked"
    /\ pc["w2"] = "lock"
    /\ cur["w1"].localHourly # EmptyMap
    /\ cur["w2"].localHourly # EmptyMap
    /\ agg.hourlyCounts = EmptyMap

----------------------------------------------------------------------------
(* cache_builder.go: BuildFullCache and IncrementalUpdate.  A data file    *)
(* holds lines next to its modification time; the files of projects/ are   *)
(* named *.jsonl and those of debug/ *.txt.                                *)

DataFile(mtime, lines) == [st |-> "ok", mtime |-> mtime, lines |-> lines]

\* &DayAggregate{Date: dateKey, ProjectCounts: ..., ModelCounts: ...}
NewDayAggregate(dateKey) ==
    [Date |-> dateKey, MessageCount |-> 0, SessionCount |-> 0, ToolCallCount |-> 0,
     HourlyCounts |-> [h \in 0..23 |-> 0],
     ProjectCounts |-> EmptyMap, ModelCounts |-> EmptyMap]

AddMessageMutant(da, project, hour) ==
    [da EXCEPT !.MessageCount = @ + 1,
               !.HourlyCounts = IF hour >= 0 /\ hour < 24
                                THEN [@ EXCEPT ![hour] = @ + 1] ELSE @,
               !.ProjectCounts = IF project = "" THEN @ ELSE Inc(@, project, 1)]

\* DayAggregate.AddMessage
AddMessage(da, project, hour) ==
    [da EXCEPT !.MessageCount = @ + 1,
               !.HourlyCounts = IF hour >= 0 /\ hour < 24
                                THEN [@ EXCEPT ![hour] = @ + 1] ELSE @,
               !.ProjectCounts = Inc(@, project, 1)]

\* cache.DailyStats[dateKey], created when it is nil.
DayOf(stats, dateKey) ==
    IF dateKey \in DOMAIN stats THEN stats[dateKey] ELSE NewDayAggregate(dateKey)

\* buildFromHistory, one decoded record: the day of its timestamp on the
\* local calendar gets the message, and TotalMessages grows by one.
CountHistoryLine(cf, record, off) ==
    LET timestamp == [sec |-> UnixSeconds(record.Timestamp), off |-> off]
        dateKey == FormatDate(timestamp)
    IN  [cf EXCEPT
            !.DailyStats = (dateKey :> AddMessage(DayOf(cf.DailyStats, dateKey),
                                                  record.Project, HourOf(timestamp))) @@ @,
            !.TotalMessages = @ + 1]

\* The loop of buildFromHistory from the decoder state d on, and one turn
\* of it on the outcome r of decoder.Decode; a decoder that has saved an
\* error other than io.EOF returns it at every call, and the loop never
\* ends.
RECURSIVE HistoryLoop(_, _, _, _), HistoryTurn(_, _, _, _)
HistoryLoop(cf, d, lines, off) == HistoryTurn(cf, DecodeNext(d, lines), lines, off)

HistoryTurn(cf, r, lines, off) ==
    IF r.err = "eof" THEN [st |-> "ok", cache |-> cf]
    ELSE IF r.err = "syntax" THEN [st |-> "hang", cache |-> cf]
    ELSE IF r.err # "none" THEN HistoryLoop(cf, r.d, lines, off)
    ELSE HistoryLoop(CountHistoryLine(cf, r.record, off), r.d, lines, off)

\* buildFromHistory: a missing file is no error.
buildFromHistory(cf, file, off) ==
    IF file.st = "absent" THEN [st |-> "ok", cache |-> cf]
    ELSE IF file.st # "ok" THEN [st |-> "err", cache |-> cf]
    ELSE HistoryLoop(cf, NewDecoder, file.lines, off)

\* parseProjectFile, one assistant record with a timestamp: its session is
\* noted, and the day of its timestamp counts its model if it names one.
CountTranscriptLine(acc, rec) ==
    LET dateKey == FormatDate(rec.ts)
    IN  [cache |->
            IF rec.msgOk /\ rec.Model # ""
            THEN [acc.cache EXCEPT
                    !.DailyStats =
                        (dateKey :> [DayOf(acc.cache.DailyStats, dateKey) EXCEPT
                                        !.ModelCounts = Inc(@, rec.Model, 1)]) @@ @]
            ELSE acc.cache,
         sessions |-> IF rec.SessionID # "" THEN acc.sessions \cup {rec.SessionID}
                      ELSE acc.sessions]

\* The loop of parseProjectFile, and one turn of it: acc holds the cache
\* and the session set.
RECURSIVE ProjectFileLoop(_, _, _), ProjectFileTurn(_, _, _)
ProjectFileLoop(acc, d, lines) == ProjectFileTurn(acc, DecodeNext(d, lines), lines)

ProjectFileTurn(acc, r, lines) ==
    IF r.err = "eof" THEN [st |-> "ok", cache |-> acc.cache, sessions |-> acc.sessions]
    ELSE IF r.err = "syntax"
         THEN [st |-> "hang", cache |-> acc.cache, sessions |-> acc.sessions]
    ELSE IF r.err # "none" THEN ProjectFileLoop(acc, r.d, lines)
    ELSE IF ~r.record.tsOk THEN ProjectFileLoop(acc, r.d, lines)
    ELSE IF r.record.Type # "assistant" THEN ProjectFileLoop(acc, r.d, lines)
    ELSE ProjectFileLoop(CountTranscriptLine(acc, r.record), r.d, lines)

\* parseProjectFile: a file that does not open is an error for the caller
\* to pass over.
parseProjectFile(file, acc) ==
    IF file.st # "ok" THEN [st |-> "err", cache |-> acc.cache, sessions |-> acc.sessions]
    ELSE ProjectFileLoop(acc, NewDecoder, file.lines)

\* The loop of buildFromProjects over the files of one project directory;
\* r is what parseProjectFile returned for the file before rest.
RECURSIVE ProjectDirFiles(_, _), NextProjectFile(_, _)
ProjectDirFiles(acc, files) ==
    IF files = <<>> THEN [st |-> "ok", cache |-> acc.cache, sessions |-> acc.sessions]
    ELSE IF Head(files).kind # "file" THEN ProjectDirFiles(acc, Tail(files))
    ELSE NextProjectFile(parseProjectFile(Head(files).file, acc), Tail(files))

NextProjectFile(r, rest) ==
    IF r.st = "hang" THEN r
    ELSE ProjectDirFiles([cache |-> r.cache, sessions |-> r.sessions], rest)

\* The loop of buildFromProjects over the entries of projects/: an entry
\* that is no directory and a directory that cannot be read are passed over.
RECURSIVE ProjectDirs(_, _), NextProjectDir(_, _)
ProjectDirs(acc, entries) ==
    IF entries = <<>> THEN [st |-> "ok", cache |-> acc.cache, sessions |-> acc.sessions]
    ELSE IF Head(entries).kind # "dir" THEN ProjectDirs(acc, Tail(entries))
    ELSE IF Head(entries).dir.st # "ok" THEN ProjectDirs(acc, Tail(entries))
    ELSE NextProjectDir(ProjectDirFiles(acc, Head(entries).dir.entries), Tail(entries))

NextProjectDir(r, rest) ==
    IF r.st = "hang" THEN r
    ELSE ProjectDirs([cache |-> r.cache, sessions |-> r.sessions], rest)

\* The end of buildFromProjects: the session count is written when the
\* loop has ended.
SessionsCounted(r) ==
    IF r.st = "hang" THEN [st |-> "hang", cache |-> r.cache]
    ELSE [st |-> "ok", cache |-> [r.cache EXCEPT !.TotalSessions = Cardinality(r.sessions)]]

\* buildFromProjects: a missing directory is no error.
buildFromProjects(cf, dir) ==
    IF dir.st = "absent" THEN [st |-> "ok", cache |-> cf]
    ELSE IF dir.st # "ok" THEN [st |-> "err", cache |-> cf]
    ELSE SessionsCounted(ProjectDirs([cache |-> cf, sessions |-> {}], dir.entries))

\* A line of a debug log is the sequence of its pieces: an occurrence of
\* mcp__server__tool, written as the key "server::tool" it is counted
\* under, or a stretch of text that names no tool.
LongText == "70,000 bytes that name no tool"
HugeText == "1,100,000 bytes that name no tool"

PieceLen(piece) ==
    IF piece = LongText THEN 70000
    ELSE IF piece = HugeText THEN 1100000
    ELSE 16

RECURSIVE LineLen(_)
LineLen(line) == IF line = <<>> THEN 0 ELSE PieceLen(Head(line)) + LineLen(Tail(line))

\* bufio.MaxScanTokenSize, the longest line a scanner made by
\* bufio.NewScanner returns, which newScanner does not raise.
MaxScanTokenSize == 64 * 1024

\* pattern.FindAllStringSubmatch(line, -1) and the loop over the matches.
RECURSIVE CountMatches(_, _)
CountMatches(stats, matches) ==
    IF matches = <<>> THEN stats
    ELSE IF Head(matches) \in {LongText, HugeText} THEN CountMatches(stats, Tail(matches))
    ELSE CountMatches(Inc(stats, Head(matches), 1), Tail(matches))

\* The loop "for scanner.Scan()" over the lines of a file: Scan returns
\* false at the end of the file and at a line too long for the scanner,
\* whose error the callers do not read.
RECURSIVE ScanLoop(_, _, _)
ScanLoop(stats, lines, max) ==
    IF lines = <<>> THEN stats
    ELSE IF LineLen(Head(lines)) >= max THEN stats
    ELSE ScanLoop(CountMatches(stats, Head(lines)), Tail(lines), max)

\* parseDebugFile: the loop of the scanner over the lines.
parseDebugFile(stats, lines) == ScanLoop(stats, lines, MaxScanTokenSize)

RECURSIVE DebugEntries(_, _)
DebugEntries(stats, entries) ==
    IF entries = <<>> THEN stats
    ELSE IF Head(entries).kind # "file" THEN DebugEntries(stats, Tail(entries))
    ELSE IF Head(entries).file.st # "ok" THEN DebugEntries(stats, Tail(entries))
    ELSE DebugEntries(parseDebugFile(stats, Head(entries).file.lines), Tail(entries))

\* buildFromDebugLogs: a missing directory is no error.
buildFromDebugLogs(cf, dir) ==
    IF dir.st = "absent" THEN [st |-> "ok", cache |-> cf]
    ELSE IF dir.st # "ok" THEN [st |-> "err", cache |-> cf]
    ELSE [st |-> "ok",
          cache |-> [cf EXCEPT !.MCPToolStats = DebugEntries(@, dir.entries)]]

\* cache := &CacheFile{Version: "1.0", LastUpdate: time.Now(), ...}
FreshCache(n) == [EmptyCache EXCEPT !.Version = "1.0", !.LastUpdate = n]

\* How a call of BuildFullCache ends at one of its steps without a save.
Ended(st, step, file) == [st |-> st, step |-> step, file |-> file, built |-> {}]

\* The end of BuildFullCache: w is what cache.Save returned for cf.
AfterSave(cf, w, file) ==
    IF w.err # "none" THEN Ended("err", "save", file)
    ELSE [st |-> "ok", step |-> "done", file |-> w.file, built |-> {cf}]

\* BuildFullCache after buildFromDebugLogs has returned d, after
\* buildFromProjects has returned p, and after buildFromHistory has
\* returned h: the first error ends the call, and a parsing loop that never
\* ends keeps the call from returning.
AfterDebugLogsMutant(d, off, file) ==
    AfterSave(d.cache, Save(d.cache, off, file), file)

AfterDebugLogs(d, off, file) ==
    IF d.st # "ok" THEN Ended(d.st, "debug", file)
    ELSE AfterSave(d.cache, Save(d.cache, off, file), file)

AfterProjects(p, fs, off, file) ==
    IF p.st # "ok" THEN Ended(p.st, "projects", file)
    ELSE AfterDebugLogs(buildFromDebugLogs(p.cache, fs.debug), off, file)

AfterHistory(h, fs, off, file) ==
    IF h.st # "ok" THEN Ended(h.st, "history", file)
    ELSE AfterProjects(buildFromProjects(h.cache, fs.projects), fs, off, file)

\* The three parsing steps and the save of BuildFullCache from the snapshot
\* cf on.
BuildSteps(cf, fs, off, file) ==
    AfterHistory(buildFromHistory(cf, fs.history, off), fs, off, file)

BuildFullCacheMutant(fs, n, off, file) ==
    IF LoadCacheFile(file).err = "none"
    THEN BuildSteps([Deref(LoadCacheFile(file).cache) EXCEPT !.LastUpdate = n], fs, off, file)
    ELSE BuildSteps(FreshCache(n), fs, off, file)

\* CacheBuilder.BuildFullCache at the instant n, with time.Local at offset
\* off and the cache file in state file: how the call ends (st: "ok", "err"
\* or "hang"), the cache file it leaves, and the snapshot it has saved.
BuildFullCache(fs, n, off, file) == BuildSteps(FreshCache(n), fs, off, file)

Ran(r, rebuilt) ==
    [st |-> r.st, step |-> r.step, file |-> r.file, built |-> r.built, rebuilt |-> rebuilt]

\* IncrementalUpdate once LoadCacheFile has returned snap and
\* GetLastDataModified m: "rebuild" when the cache did not load or the data
\* are newer than its LastUpdate, "scan" when the data could not be
\* scanned, "fresh" when nothing is newer.
UpdateDecision(snap, m) ==
    IF snap.err # "none" THEN "rebuild"
    ELSE IF m.err THEN "scan"
    ELSE IF ~After(m.lastMod, Deref(snap.cache).LastUpdate) THEN "fresh"
    ELSE "rebuild"

\* CacheBuilder.IncrementalUpdate: as BuildFullCache, with rebuilt telling
\* whether BuildFullCache was called.
IncrementalUpdate(fs, n, off, file) ==
    CASE UpdateDecision(LoadCacheFile(file), GetLastDataModified(fs)) = "rebuild" ->
            Ran(BuildFullCache(fs, n, off, file), TRUE)
      [] UpdateDecision(LoadCacheFile(file), GetLastDataModified(fs)) = "scan" ->
            [st |-> "err", step |-> "scan", file |-> file, built |-> {}, rebuilt |-> FALSE]
      [] OTHER ->
            [st |-> "ok", step |-> "fresh", file |-> file, built |-> {}, rebuilt |-> FALSE]

----------------------------------------------------------------------------
(* The builder at work: the tool appends records to its logs while the     *)
(* cache is built, updated and damaged.                                    *)

MaxAppends == 2

\* The lines the tool appends to history.jsonl: a command typed in the
\* project /a, a message that names no project, and two lines that do not
\* decode.
AppendedHistory ==
    { HistoryRecordIn("/a", <<"/commit">>, Saturday1730, 500),
      HistoryRecord(<<"hello">>, Monday1000, 0),
      TypeErrorLine,
      SyntaxErrorLine }

\* The line it appends to the transcript projects/p/s.jsonl.
AppendedTranscript ==
    { ProjectRecord("assistant", "/a", "s1", TRUE, [sec |-> Monday1000, off |-> 0],
                    TRUE, "opus", 10, 5) }

\* The line it appends to debug/a.txt, which names a tool of an MCP server.
AppendedDebug == { <<"search::web">> }

\* The lines of the data files of a directory tree, absent or unreadable
\* files holding none.
HistoryOf(fs) == LinesOf(fs.history)
TranscriptOf(fs) ==
    IF fs.projects.st = "ok" /\ fs.projects.entries[1].dir.st = "ok"
    THEN LinesOf(fs.projects.entries[1].dir.entries[1].file) ELSE <<>>
DebugOf(fs) ==
    IF fs.debug.st = "ok" THEN LinesOf(fs.debug.entries[1].file) ELSE <<>>

InitRebuild ==
    /\ tz = 8 * 3600
    /\ now = StartOfTime
    /\ req = NoRequest /\ tf = NoFilter /\ built = "none" /\ ferr = FALSE
    /\ resp = "none" /\ aggTf = {} /\ probe = {} /\ contained = FALSE
    /\ IdleCache
    /\ IdleBuilder
    /\ IdleAgg
    /\ IdleCalls

\* The tool appends a line to one of its logs, which takes the current
\* time as its modification time and is created when it is missing.
AppendRecord(path, line) ==
    /\ Len(HistoryOf(dataFs)) + Len(TranscriptOf(dataFs)) + Len(DebugOf(dataFs)) < MaxAppends
    /\ \/ /\ path = "history.jsonl"
          /\ dataFs' = [dataFs EXCEPT
                          !.history = DataFile(now, Append(HistoryOf(dataFs), line))]
       \/ /\ path = "projects/p/s.jsonl"
          /\ IF dataFs.projects.st = "ok"
             THEN dataFs.projects.entries[1].dir.st = "ok" ELSE TRUE
          /\ dataFs' = [dataFs EXCEPT
                          !.projects = Dir(<<DirEntry(Dir(<<FileEntry(
                              DataFile(now, Append(TranscriptOf(dataFs), line)))>>))>>)]
       \/ /\ path = "debug/a.txt"
          /\ dataFs.debug.st # "denied"
          /\ dataFs' = [dataFs EXCEPT
                          !.debug = Dir(<<FileEntry(
                              DataFile(now, Append(DebugOf(dataFs), line)))>>)]
    /\ needs' = {}
    /\ UNCHANGED <<cacheFile, now>>
    /\ ret' = NoCall
    /\ UNCHANGED otherThanBuilder

\* builder.BuildFullCache(); ret keeps what the call was given: the cache
\* file, the data, the clock, and what NeedsRebuild returns for them.
CallBuildFullCache ==
    /\ \E r \in {BuildFullCache(dataFs, now, tz, cacheFile)} :
           /\ cacheFile' = r.file
           /\ ret' = [op |-> "BuildFullCache", st |-> r.st, step |-> r.step,
                      built |-> r.built, rebuilt |-> TRUE,
                      before |-> cacheFile, after |-> r.file, data |-> dataFs,
                      at |-> now, needed |-> NeedsRebuild(cacheFile, dataFs)]
    /\ needs' = {}
    /\ UNCHANGED <<dataFs, now, loaded>>
    /\ UNCHANGED <<tz, req, tf, built, ferr, resp, aggTf, probe, contained, cacheVars, aggVars,
                   serveVars, scanVars, heapVars>>

\* builder.IncrementalUpdate()
CallIncrementalUpdate ==
    /\ \E r \in {IncrementalUpdate(dataFs, now, tz, cacheFile)} :
           /\ cacheFile' = r.file
           /\ ret' = [op |-> "IncrementalUpdate", st |-> r.st, step |-> r.step,
                      built |-> r.built, rebuilt |-> r.rebuilt,
                      before |-> cacheFile, after |-> r.file, data |-> dataFs,
                      at |-> now, needed |-> NeedsRebuild(cacheFile, dataFs)]
    /\ needs' = {}
    /\ UNCHANGED <<dataFs, now, loaded>>
    /\ UNCHANGED <<tz, req, tf, built, ferr, resp, aggTf, probe, contained, cacheVars, aggVars,
                   serveVars, scanVars, heapVars>>

NextRebuild ==
    \/ Tick
    \/ \E line \in AppendedHistory : AppendRecord("history.jsonl", line)
    \/ \E line \in AppendedTranscript : AppendRecord("projects/p/s.jsonl", line)
    \/ \E line \in AppendedDebug : AppendRecord("debug/a.txt", line)
    \/ \E path \in {"debug", "projects/p"} : DenyDir(path)
    \/ \E how \in {"corrupt", "denied"} : DamageCache(how)
    \/ CallBuildFullCache
    \/ CallIncrementalUpdate
    \/ CallGetLastDataModified

SpecRebuild == InitRebuild /\ [][NextRebuild]_vars

----------------------------------------------------------------------------
(* Claims about BuildFullCache, IncrementalUpdate and GetLastDataModified. *)

\* C11: whatever the cache file and the data directory are, a call of
\* IncrementalUpdate runs BuildFullCache exactly when NeedsRebuild returns
\* true for them, and otherwise leaves the snapshot file as it was.
C11_UpdateRebuildsIffNeedsRebuild ==
    ret.op = "IncrementalUpdate" =>
        /\ ret.rebuilt <=> ret.needed
        /\ ~ret.rebuilt => ret.after = ret.before

\* A snapshot without the instant it was built at.
Undated(snaps) == {[c EXCEPT !.LastUpdate = StartOfTime] : c \in snaps}

\* C12: the snapshot a successful BuildFullCache writes is the one it
\* builds over the same data when no cache file exists, whatever the cache
\* file held before, except for LastUpdate; and the cache file then holds
\* that snapshot alone.
C12_BuildReplacesWholesale ==
    (ret.op = "BuildFullCache" /\ ret.st = "ok") =>
        /\ Undated(ret.built)
             = Undated(BuildFullCache(ret.data, StartOfTime, tz, Absent).built)
        /\ LoadCacheFile(ret.after).cache = ret.built
        /\ cacheFile = ret.after

\* A successful rebuild over data with messages, on top of a cache file
\* that already held a snapshot counting messages.
C12_Witness ==
    /\ ret.op = "BuildFullCache" /\ ret.st = "ok"
    /\ LoadCacheFile(ret.before).err = "none"
    /\ Deref(LoadCacheFile(ret.before).cache).TotalMessages >= 1
    /\ Deref(ret.built).TotalMessages >= 1
    /\ Deref(ret.built).LastUpdate # Deref(LoadCacheFile(ret.before).cache).LastUpdate

\* The sum of the message counts of a map of project statistics.
RECURSIVE MessagesOf(_)
MessagesOf(stats) ==
    IF DOMAIN stats = {} THEN 0
    ELSE LET k == CHOOSE x \in DOMAIN stats : TRUE
         IN  stats[k].MessageCount
               + MessagesOf([x \in DOMAIN stats \ {k} |-> stats[x]])

\* What the live aggregator of the transcripts (ParseProjectsConcurrentOnce)
\* computes over the data with an unbounded filter.
LiveTotals(fs) == SequentialLines(NewAggregate, TranscriptOf(fs), NoFilter)

\* C13: after a successful BuildFullCache the snapshot holds the statistics
\* the live aggregators compute over the same data with an unbounded
\* filter: the same projects and models, the same total of messages, the
\* same message count on every date, and an entry for every weekday and
\* hour that has messages.
C13_SnapshotEqualsLiveTotals ==
    (ret.op = "BuildFullCache" /\ ret.st = "ok") =>
        LET snap == Deref(ret.built)
            live == LiveTotals(ret.data)
        IN  /\ DOMAIN snap.ProjectStats = DOMAIN live.ProjectStats
            /\ DOMAIN snap.ModelUsage = DOMAIN live.ModelUsage
            /\ snap.TotalMessages = MessagesOf(live.ProjectStats)
            /\ \A d \in DOMAIN live.DailyActivity :
                   /\ d \in DOMAIN snap.DailyStats
                   /\ snap.DailyStats[d].MessageCount = live.DailyActivity[d]
            /\ \A w \in 0..6 :
                   live.WeekdayData[w].MessageCount > 0 => snap.WeekdayStats[w] # {}
            /\ \A h \in 0..23 : live.HourlyCounts[h] > 0 => snap.HourlyStats[h] # {}

\* The data files hold decodable message records only: no malformed line,
\* no debug log.
OnlyRecords(fs) ==
    /\ \A i \in DOMAIN HistoryOf(fs) : HistoryOf(fs)[i].kind = "record"
    /\ \A i \in DOMAIN TranscriptOf(fs) : TranscriptOf(fs)[i].kind = "record"
    /\ DebugOf(fs) = <<>>

\* C14: when IncrementalUpdate returns successfully over a cache file that
\* held a snapshot and data with a file modified after that snapshot's
\* LastUpdate (message records were appended since), the snapshot it has
\* saved has a strictly later LastUpdate and a strictly greater
\* TotalMessages.
C14_UpdateCountsAppendedRecords ==
    (/\ ret.op = "IncrementalUpdate" /\ ret.st = "ok"
     /\ OnlyRecords(ret.data)
     /\ LoadCacheFile(ret.before).err = "none"
     /\ ~GetLastDataModified(ret.data).err
     /\ After(GetLastDataModified(ret.data).lastMod, LoadedLastUpdate(ret.before)))
    => /\ LoadCacheFile(ret.after).err = "none"
       /\ After(LoadedLastUpdate(ret.after), LoadedLastUpdate(ret.before))
       /\ Deref(LoadCacheFile(ret.after).cache).TotalMessages
            > Deref(LoadCacheFile(ret.before).cache).TotalMessages

----------------------------------------------------------------------------
(* The cache file saved and loaded: a caller holds a snapshot, saves it,   *)
(* loads the file, while the file is removed, truncated or protected.      *)

\* The snapshots a caller saves: those of the cache methods, and the same
\* with a covered range.
StoredSnapshots ==
    Snapshots \cup
      { [c EXCEPT !.TimeRange = [Start |-> DateAt(2026, 1, 6, 0, 0, 1, 0),
                                 End   |-> DateAt(2026, 1, 8, 23, 59, 59, 0)]] :
          c \in { x \in Snapshots : DOMAIN x.DailyStats = DateKeys } }

InitStore ==
    /\ tz \in Zones
    /\ now = StartOfTime
    /\ req = NoRequest /\ tf = NoFilter /\ built = "none" /\ ferr = FALSE
    /\ resp = "none" /\ aggTf = {} /\ probe = {} /\ contained = FALSE
    /\ cache \in StoredSnapshots
    /\ view = {}
    /\ qrange = [Start |-> ZeroTime, End |-> ZeroTime]
    /\ expArg = {}
    /\ expired = FALSE
    /\ IdleBuilder
    /\ IdleAgg
    /\ IdleCalls

\* cache.Save(path)
CallSave ==
    /\ LET w == Save(cache, tz, cacheFile)
       IN  /\ cacheFile' = w.file
           /\ loaded' = [op |-> "Save", err |-> w.err, file |-> w.file]
    /\ ret' = NoCall
    /\ needs' = {}
    /\ UNCHANGED <<dataFs, now>>
    /\ UNCHANGED <<tz, req, tf, built, ferr, resp, aggTf, probe, contained, cacheVars, aggVars,
                   serveVars, scanVars, heapVars>>

\* Something else writes the document {} to the path.
WriteEmptyObject ==
    /\ cacheFile.st # "denied"
    /\ cacheFile' = JSONFile(EmptyObject)
    /\ ret' = NoCall
    /\ needs' = {}
    /\ UNCHANGED <<dataFs, now>>
    /\ UNCHANGED otherThanBuilder

\* LoadCacheFile(path), which stats and reads the file; loaded keeps the
\* file the call met and the file it left, what it returned, and whether the call before it was the Save that wrote this file.
CallLoadCacheFile ==
    /\ UNCHANGED <<cacheFile, dataFs, needs, now>>
    /\ LET r == LoadCacheFile(cacheFile)
       IN  loaded' = [op |-> "LoadCacheFile", file |-> cacheFile, after |-> cacheFile',
                      err |-> r.err, cache |-> r.cache,
                      saved |-> /\ loaded.op = "Save"
                                /\ loaded.err = "none"
                                /\ loaded.file = cacheFile]
    /\ ret' = NoCall
    /\ UNCHANGED <<tz, req, tf, built, ferr, resp, aggTf, probe, contained, cacheVars, aggVars,
                   serveVars, scanVars, heapVars>>

NextStore ==
    \/ CallSave
    \/ CallLoadCacheFile
    \/ WriteEmptyObject
    \/ \E how \in {"absent", "corrupt", "denied"} : DamageCache(how)

SpecStore == InitStore /\ [][NextStore]_vars

----------------------------------------------------------------------------
(* Claims about Save and LoadCacheFile.                                    *)

\* C16: LoadCacheFile returns an error and no snapshot when the file does
\* not exist and when its content is no JSON document of a snapshot; it
\* returns a snapshot only with no error, from a file that exists and
\* deserializes; and it leaves the file as it met it.
C16_LoadFailsWithoutSnapshot ==
    loaded.op = "LoadCacheFile" =>
        /\ loaded.file.st = "absent" => (loaded.err = "notfound" /\ loaded.cache = {})
        /\ loaded.file.st = "corrupt" => (loaded.err = "parse" /\ loaded.cache = {})
        /\ loaded.cache # {} =>
              (loaded.err = "none" /\ loaded.file.st = "ok"
               /\ loaded.cache = {Unmarshal(loaded.file.json)})
        /\ loaded.err # "none" => loaded.cache = {}
        /\ loaded.after = loaded.file

\* LoadCacheFile has met a file whose content is no JSON.
C16_Witness ==
    /\ loaded.op = "LoadCacheFile"
    /\ loaded.file.st = "corrupt"
    /\ loaded.err = "parse"
    /\ ~loaded.saved

\* C17: LoadCacheFile right after a successful Save of a snapshot returns,
\* without error, a snapshot equal to the saved one in every field.
C17_SaveThenLoadIsLossless ==
    (loaded.op = "LoadCacheFile" /\ loaded.saved) =>
        /\ loaded.err = "none"
        /\ loaded.cache = {cache}

\* A snapshot with a LastUpdate, a covered range, daily statistics and
\* project, model, weekday, hour and tool aggregates has been saved east of
\* UTC and loaded.
C17_Witness ==
    /\ loaded.op = "LoadCacheFile" /\ loaded.saved
    /\ tz = 8 * 3600
    /\ ~IsZero(cache.LastUpdate)
    /\ ~IsZero(cache.TimeRange.Start)
    /\ DOMAIN cache.DailyStats # {}
    /\ DOMAIN cache.ProjectStats # {} /\ DOMAIN cache.ModelUsage # {}
    /\ DOMAIN cache.MCPToolStats # {}
    /\ \E w \in 0..6 : cache.WeekdayStats[w] # {}
    /\ \E h \in 0..23 : cache.HourlyStats[h] # {}

----------------------------------------------------------------------------
(* api.go: handleDataAPI served from the live snapshot globalCache, while  *)
(* the snapshot is replaced or cleared by plain assignments, as the tests  *)
(* of the package do it.                                                   *)

\* The errors of the live aggregators: os.Open of history.jsonl fails,
\* os.ReadDir of projects/ or of debug/ fails.
ParseHistoryConcurrentFails(fs) == fs.history.st # "ok"
ParseProjectsConcurrentOnceFails(fs) == fs.projects.st # "ok"
ParseDebugLogsConcurrentFails(fs) == fs.debug.st # "ok"
ParseSessionStatsWithFilterFails(fs) == fs.projects.st # "ok"

\* buildDataFromParsing: the source whose pass is the first to return an
\* error, "none" when the four passes succeed.
buildDataFromParsing(fs) ==
    IF ParseHistoryConcurrentFails(fs) THEN "history"
    ELSE IF ParseProjectsConcurrentOnceFails(fs) THEN "projects"
    ELSE IF ParseDebugLogsConcurrentFails(fs) THEN "debug"
    ELSE IF ParseSessionStatsWithFilterFails(fs) THEN "projects"
    ELSE "none"

\* The bounds buildDataFromCache passes to QueryByTimeRange: the zero time
\* for a bound the filter does not have.
BoundOf(p) == IF p = {} THEN ZeroTime ELSE Deref(p)

\* The snapshots that are installed as the live one.
ServedSnapshots ==
    { c \in Snapshots :
        /\ DOMAIN c.DailyStats = DateKeys
        /\ ~IsZero(c.LastUpdate) }

\* The data directories of a request: empty, history.jsonl alone, all three
\* sources, and all three with a debug directory that cannot be read.
ServedData ==
    { EmptyDataDir,
      [EmptyDataDir EXCEPT !.history = DataFile(StartOfTime, <<>>)],
      [EmptyDataDir EXCEPT !.history = DataFile(StartOfTime, <<>>),
                           !.projects = Dir(<<>>), !.debug = Dir(<<>>)],
      [EmptyDataDir EXCEPT !.history = DataFile(StartOfTime, <<>>),
                           !.projects = Dir(<<>>), !.debug = Denied] }

InitServe ==
    /\ tz = 0
    /\ now = StartOfTime
    /\ req = NoRequest /\ tf = NoFilter /\ built = "none" /\ ferr = FALSE
    /\ resp = "none" /\ aggTf = {} /\ probe = {} /\ contained = FALSE
    /\ IdleCache
    /\ cacheFile = Absent
    /\ dataFs \in ServedData
    /\ needs = {}
    /\ IdleAgg
    /\ ret = NoCall
    /\ loaded = NoCall
    /\ globalCache \in {{}} \cup {{c} : c \in ServedSnapshots}
    /\ handler = NoHandler
    /\ scan = NoScan
    /\ heap = NoHeap

\* handleDataAPI up to "if globalCache != nil": the filter is built and the
\* variable is read a first time.
CheckGlobalCache(f) ==
    /\ handler.pc = "idle"
    /\ handler' = [pc |-> IF globalCache # {} THEN "cache" ELSE "parse", tf |-> f]
    /\ UNCHANGED globalCache
    /\ UNCHANGED <<ret, loaded, scanVars, heapVars>>
    /\ UNCHANGED <<filterVars, cacheVars, builderVars, aggVars>>

\* buildDataFromCache: the count of an hour, 0 for an hour without an
\* aggregate.
CachedHourCount(cached, hour) ==
    IF cached.HourlyStats[hour] # {} THEN Deref(cached.HourlyStats[hour]).MessageCount
    ELSE 0

\* buildDataFromCache: the hourlyData it appends, hour after hour.
CachedHourlyData(cached) ==
    [i \in 1..24 |-> [Hour |-> i - 1, Count |-> CachedHourCount(cached, i - 1),
                      IsWorkHour |-> (i - 1 >= 9 /\ i - 1 <= 18)]]

\* buildDataFromCache: the work-hours statistics, from the loop over the
\* hours 0 to 23 that begins with peakHour := -1 and peakHourCount := 0.
CachedWorkHours(cached) ==
    WorkHoursStatsOf(CachedHourlyData(cached),
        WorkHoursLoop(CachedHourlyData(cached), 1,
                      [WorkHoursCount |-> 0, OffHoursCount |-> 0,
                       Peak |-> [Hour |-> -1, Count |-> 0]]))

\* What buildDataFromCache returns for the snapshot the query gave it.
DataFromCache(cached) == [view |-> cached, WorkHoursStats |-> CachedWorkHours(cached)]

\* buildDataFromCache: globalCache is read a second time and
\* QueryByTimeRange is called on what it points to, which panics on nil;
\* the command statistics come from ParseHistoryConcurrent, whose error
\* sends the handler to buildDataFromParsing.
BuildDataFromCache ==
    /\ handler.pc = "cache"
    /\ handler' =
         IF globalCache = {} THEN [pc |-> "panic", tf |-> handler.tf]
         ELSE IF ParseHistoryConcurrentFails(dataFs)
         THEN [pc |-> "parse", tf |-> handler.tf]
         ELSE [pc |-> "ok", tf |-> handler.tf, from |-> "cache",
               view |-> QueryByTimeRange(Deref(globalCache), BoundOf(handler.tf.Start),
                                         BoundOf(handler.tf.End)),
               WorkHoursStats |->
                   DataFromCache(QueryByTimeRange(Deref(globalCache),
                                                  BoundOf(handler.tf.Start),
                                                  BoundOf(handler.tf.End))).WorkHoursStats]
    /\ UNCHANGED globalCache
    /\ UNCHANGED <<ret, loaded, scanVars, heapVars>>
    /\ UNCHANGED <<filterVars, cacheVars, builderVars, aggVars>>

\* buildDataFromParsing and the answer: sendError when it fails.
BuildDataFromParsing ==
    /\ handler.pc = "parse"
    /\ handler' = IF buildDataFromParsing(dataFs) # "none"
                  THEN [pc |-> "error", tf |-> handler.tf,
                        failed |-> buildDataFromParsing(dataFs)]
                  ELSE [pc |-> "ok", tf |-> handler.tf, from |-> "parsing"]
    /\ UNCHANGED globalCache
    /\ UNCHANGED <<ret, loaded, scanVars, heapVars>>
    /\ UNCHANGED <<filterVars, cacheVars, builderVars, aggVars>>

\* globalCache = cache, by another goroutine.
ReplaceGlobalCache(c) ==
    /\ globalCache # {c}
    /\ globalCache' = {c}
    /\ UNCHANGED handler
    /\ UNCHANGED <<ret, loaded, scanVars, heapVars>>
    /\ UNCHANGED <<filterVars, cacheVars, builderVars, aggVars>>

\* globalCache = nil, by another goroutine.
ClearGlobalCache ==
    /\ globalCache # {}
    /\ globalCache' = {}
    /\ UNCHANGED handler
    /\ UNCHANGED <<ret, loaded, scanVars, heapVars>>
    /\ UNCHANGED <<filterVars, cacheVars, builderVars, aggVars>>

NextServe ==
    \/ \E f \in PassFilters : CheckGlobalCache(f)
    \/ BuildDataFromCache
    \/ BuildDataFromParsing
    \/ \E c \in ServedSnapshots : ReplaceGlobalCache(c)
    \/ ClearGlobalCache

SpecServe == InitServe /\ [][NextServe]_vars

----------------------------------------------------------------------------
(* Claims about the data API.                                              *)

\* C19: a source that is absent (history.jsonl, projects/, debug/) gives
\* its live aggregator an empty result and no error: when a request to the
\* data API answers the error of a pass, the source of that pass exists;
\* and over a data directory that holds history.jsonl alone the request
\* succeeds.
C19_AbsentSourcesAreNoError ==
    handler.pc = "error" =>
        /\ dataFs[handler.failed].st # "absent"
        /\ ~(/\ dataFs.history.st = "ok"
             /\ dataFs.projects.st = "absent" /\ dataFs.debug.st = "absent")

----------------------------------------------------------------------------
(* parser.go: the parsers that read the transcripts for one statistic      *)
(* each.  What follows is the body of the loop of each of them for a       *)
(* record that json.Decoder.Decode has returned, under the filter f.       *)

WeekdayIndexMutant(weekday) == IF weekday = 0 THEN 0 ELSE weekday - 1

\* parseProjectJSONLForWeekday: the place of a time.Weekday in the week
\* that begins on Monday.
WeekdayIndex(weekday) == IF weekday = 0 THEN 6 ELSE weekday - 1

\* The weekdayData ParseProjectStatsByWeekday starts from.
NewWeekdayData ==
    [i \in 0..6 |-> [Weekday |-> i, WeekdayName |-> weekdayNames[i + 1], MessageCount |-> 0]]

parseProjectJSONLForWeekday(weekdayData, rec, f) ==
    IF ~rec.tsOk THEN weekdayData
    ELSE IF ~Contains(f, rec.ts.sec) THEN weekdayData
    ELSE IF rec.Type # "assistant" THEN weekdayData
    ELSE [weekdayData EXCEPT ![WeekdayIndex(WeekdayOf(rec.ts))].MessageCount = @ + 1]

\* What ParseProjectStatsWithFilter starts from: projectMap, totalMessages
\* and the set sessions.
NewProjectStats == [projectMap |-> EmptyMap, totalMessages |-> 0, sessions |-> {}]

ProjectEntryMutant(projectMap, name, rec) ==
    [(IF name \in DOMAIN projectMap THEN projectMap[name]
      ELSE [Project |-> name, SessionCount |-> 0, MessageCount |-> 0])
     EXCEPT !.SessionCount = IF rec.SessionID # "" /\ @ = 0 THEN 1 ELSE @,
            !.MessageCount = @ + 1]

\* projectMap[name] after the record: the entry is made for a record of
\* any type, a record with a session identifier sets SessionCount to 1 if
\* it is 0, and an assistant record adds one to MessageCount.
ProjectEntry(projectMap, name, rec) ==
    [(IF name \in DOMAIN projectMap THEN projectMap[name]
      ELSE [Project |-> name, SessionCount |-> 0, MessageCount |-> 0])
     EXCEPT !.SessionCount = IF rec.SessionID # "" /\ @ = 0 THEN 1 ELSE @,
            !.MessageCount = IF rec.Type = "assistant" THEN @ + 1 ELSE @]

parseProjectJSONL(acc, rec, f) ==
    IF ~rec.tsOk THEN acc
    ELSE IF ~Contains(f, rec.ts.sec) THEN acc
    ELSE [projectMap |->
              (ProjectName(rec) :> ProjectEntry(acc.projectMap, ProjectName(rec), rec))
                 @@ acc.projectMap,
          totalMessages |-> IF rec.Type = "assistant" THEN acc.totalMessages + 1
                            ELSE acc.totalMessages,
          sessions |-> IF rec.SessionID # "" THEN acc.sessions \cup {rec.SessionID}
                       ELSE acc.sessions]

\* What ParseDailyActivityFromProjects starts from: dailyMap and
\* sessionsPerDay.
NewDailyActivity == [dailyMap |-> EmptyMap, sessionsPerDay |-> EmptyMap]

\* dailyMap[date] after the record: one more message, and one more session
\* when the identifier is not yet in sessionsPerDay[date].
DailyEntry(acc, date, rec) ==
    [(IF date \in DOMAIN acc.dailyMap THEN acc.dailyMap[date]
      ELSE [Date |-> date, MessageCount |-> 0, SessionCount |-> 0, ToolCallCount |-> 0])
     EXCEPT !.MessageCount = @ + 1,
            !.SessionCount =
                IF /\ rec.SessionID # ""
                   /\ ~(date \in DOMAIN acc.sessionsPerDay
                         /\ rec.SessionID \in acc.sessionsPerDay[date])
                THEN @ + 1 ELSE @]

SessionsOn(sessionsPerDay, date) ==
    IF date \in DOMAIN sessionsPerDay THEN sessionsPerDay[date] ELSE {}

parseProjectJSONLForDailyActivity(acc, rec, f) ==
    IF ~rec.tsOk THEN acc
    ELSE IF ~Contains(f, rec.ts.sec) THEN acc
    ELSE IF rec.Type # "assistant" THEN acc
    ELSE [dailyMap |-> (FormatDate(rec.ts) :> DailyEntry(acc, FormatDate(rec.ts), rec))
                          @@ acc.dailyMap,
          sessionsPerDay |->
              (FormatDate(rec.ts) :>
                  (SessionsOn(acc.sessionsPerDay, FormatDate(rec.ts))
                     \cup (IF rec.SessionID # "" THEN {rec.SessionID} ELSE {})))
                 @@ acc.sessionsPerDay]

\* The hourlyCounts ParseHourlyCountsFromProjects starts from: the keys
\* "00" to "23".
NewHourlyCounts == [k \in {Sprintf02d(h) : h \in 0..23} |-> 0]

parseProjectJSONLForHourly(hourlyCounts, rec, f) ==
    IF ~rec.tsOk THEN hourlyCounts
    ELSE IF ~Contains(f, rec.ts.sec) THEN hourlyCounts
    ELSE IF rec.Type # "assistant" THEN hourlyCounts
    ELSE Inc(hourlyCounts, Sprintf02d(HourOf(rec.ts)), 1)

parseProjectJSONLForModelUsageMutant(modelStats, rec, f) ==
    IF ~rec.tsOk THEN modelStats
    ELSE IF ~Contains(f, rec.ts.sec) THEN modelStats
    ELSE IF rec.Type # "assistant" THEN modelStats
    ELSE IF ~rec.msgOk THEN modelStats
    ELSE IF rec.Model = "" THEN modelStats
    ELSE (rec.Model :>
            [(IF rec.Model \in DOMAIN modelStats THEN modelStats[rec.Model]
              ELSE [Model |-> rec.Model, Count |-> 0, Tokens |-> 0])
             EXCEPT !.Count = @ + 1, !.Tokens = @ + rec.InputTokens])
         @@ modelStats

parseProjectJSONLForModelUsage(modelStats, rec, f) ==
    IF ~rec.tsOk THEN modelStats
    ELSE IF ~Contains(f, rec.ts.sec) THEN modelStats
    ELSE IF rec.Type # "assistant" THEN modelStats
    ELSE IF ~rec.msgOk THEN modelStats
    ELSE IF rec.Model = "" THEN modelStats
    ELSE (rec.Model :>
            [(IF rec.Model \in DOMAIN modelStats THEN modelStats[rec.Model]
              ELSE [Model |-> rec.Model, Count |-> 0, Tokens |-> 0])
             EXCEPT !.Count = @ + 1, !.Tokens = @ + rec.InputTokens + rec.OutputTokens])
         @@ modelStats

----------------------------------------------------------------------------
(* The parsers at work.  Each of them is a loop of its own over the files  *)
(* of projects/; here the loops of the five parsers, of the single pass    *)
(* and of the cache builder take their turns together, each on the same    *)
(* line, so that what they have counted can be compared line after line.   *)

MaxScanLines == 3

\* The lines of the transcripts: an assistant record with a model and
\* tokens, one with no project, no session and no model (written at 01:30
\* on Sunday the 11th in a zone eight hours east), one whose message does
\* not parse, one of another session on the same day, a user record of a
\* project and a session no other record names, a record whose timestamp
\* does not parse, and the two kinds of lines that do not decode.
ScanLines ==
    { ProjectRecord("assistant", "/a", "s1", TRUE, [sec |-> Monday1000, off |-> 0],
                    TRUE, "opus", 10, 5),
      ProjectRecord("assistant", "", "", TRUE, [sec |-> Saturday1730, off |-> 8 * 3600],
                    TRUE, "", 0, 0),
      ProjectRecord("assistant", "/b", "s2", TRUE, [sec |-> Wednesday2015, off |-> 0],
                    FALSE, "opus", 1, 1),
      ProjectRecord("assistant", "/b", "s1", TRUE, [sec |-> Wednesday2015, off |-> 0],
                    TRUE, "sonnet", 3, 4),
      ProjectRecord("user", "/c", "s3", TRUE, [sec |-> Wednesday2015, off |-> 0],
                    FALSE, "", 0, 0),
      ProjectRecord("assistant", "/a", "s1", FALSE, NoTime, TRUE, "opus", 7, 7),
      TypeErrorLine,
      SyntaxErrorLine }

\* Two files that hold MaxScanLines lines between them at most.
ScanCorpora ==
    { c \in [1..2 -> SeqsUpTo(ScanLines, MaxScanLines)] :
        Len(c[1]) + Len(c[2]) <= MaxScanLines }

InitScan ==
    /\ tz = 0
    /\ now = StartOfTime
    /\ req = NoRequest /\ built = "none" /\ ferr = FALSE
    /\ resp = "none" /\ aggTf = {} /\ probe = {} /\ contained = FALSE
    /\ tf \in PassFilters
    /\ IdleCache
    /\ IdleBuilder
    /\ IdleAgg
    /\ ret = NoCall
    /\ loaded = NoCall
    /\ globalCache = {}
    /\ handler = NoHandler
    /\ heap = NoHeap
    /\ \E c \in ScanCorpora :
          scan = [pc |-> "read", files |-> c, file |-> 1, dec |-> NewDecoder,
                  aggregate |-> NewAggregate,
                  projects |-> NewProjectStats,
                  weekdayData |-> NewWeekdayData,
                  daily |-> NewDailyActivity,
                  hourlyCounts |-> NewHourlyCounts,
                  modelStats |-> EmptyMap,
                  cached |-> [cache |-> FreshCache(now), sessions |-> {}],
                  out |-> {}]

\* What every loop has counted after the record rec; the cache builder
\* reads it as a file of one line.
AfterRecord(sc, rec, f) ==
    [sc EXCEPT
        !.aggregate    = IF Counted(rec, f) THEN ApplyRecord(@, rec) ELSE @,
        !.projects     = parseProjectJSONL(@, rec, f),
        !.weekdayData  = parseProjectJSONLForWeekday(@, rec, f),
        !.daily        = parseProjectJSONLForDailyActivity(@, rec, f),
        !.hourlyCounts = parseProjectJSONLForHourly(@, rec, f),
        !.modelStats   = parseProjectJSONLForModelUsage(@, rec, f),
        !.cached       = [cache    |-> parseProjectFile(TextFile(<<rec>>), @).cache,
                          sessions |-> parseProjectFile(TextFile(<<rec>>), @).sessions]]

\* One turn of the loops, r being what decoder.Decode returns: at io.EOF
\* the next file is opened; an error is passed over, and the error of a
\* line that is no JSON comes back at every turn.
AfterDecode(sc, r, f) ==
    IF r.err = "eof" THEN [sc EXCEPT !.file = @ + 1, !.dec = NewDecoder]
    ELSE IF r.err # "none" THEN [sc EXCEPT !.dec = r.d]
    ELSE AfterRecord([sc EXCEPT !.dec = r.d], r.record, f)

ScanTurn ==
    /\ scan.pc = "read"
    /\ scan.file <= Len(scan.files)
    /\ scan' = AfterDecode(scan, DecodeNext(scan.dec, scan.files[scan.file]), tf)
    /\ UNCHANGED <<filterVars, cacheVars, builderVars, aggVars, ret, loaded, serveVars, heapVars>>

\* The files are read: the single pass calls finalize,
\* ParseProjectStatsWithFilter returns its totals and buildFromProjects
\* writes the session count.
ScanReturn ==
    /\ scan.pc = "read"
    /\ scan.file > Len(scan.files)
    /\ \E projects \in ListsOf(scan.aggregate.ProjectStats),
          models \in ListsOf(scan.aggregate.ModelUsage) :
          /\ Descending(projects, "MessageCount")
          /\ Descending(models, "Count")
          /\ scan' = [scan EXCEPT
                  !.pc = "done",
                  !.aggregate = Finalized(@, projects, models),
                  !.out = {[TotalMessages |-> scan.projects.totalMessages,
                            TotalSessions |-> Cardinality(scan.projects.sessions),
                            cache |-> SessionsCounted([st |-> "ok",
                                                       cache |-> scan.cached.cache,
                                                       sessions |-> scan.cached.sessions]).cache]}]
    /\ UNCHANGED <<filterVars, cacheVars, builderVars, aggVars, ret, loaded, serveVars, heapVars>>

NextScan ==
    \/ ScanTurn
    \/ ScanReturn

SpecScan == InitScan /\ [][NextScan]_vars

----------------------------------------------------------------------------
(* Claims about the statistics of the transcripts.                         *)

\* The places <<file, line>> of the lines the loops have gone over.
ScannedPlaces ==
    { p \in (1..2) \X (1..MaxScanLines + 1) :
        /\ p[1] <= Len(scan.files)
        /\ p[2] <= Len(scan.files[p[1]])
        /\ \/ p[1] < scan.file
           \/ p[1] = scan.file /\ p[2] <= scan.dec.pos }

LineAt(p) == scan.files[p[1]][p[2]]

\* The places of the counted records among them: the timestamp parses, the
\* filter holds it, the type is "assistant".
CountedPlaces == { p \in ScannedPlaces : Counted(LineAt(p), tf) }

\* C21: every counted transcript record is counted at the weekday index
\* (w + 6) mod 7, w being its time.Weekday (Sunday 0): Monday at 0, Sunday
\* at 6; the single pass and the weekday parser use the same index for
\* every w, and the index lies in 0..6.
C21_WeekdayIndexMondayFirst ==
    /\ \A w \in 0..6 :
          /\ adjustedWeekday(w) = (w + 6) % 7
          /\ WeekdayIndex(w) = adjustedWeekday(w)
          /\ adjustedWeekday(w) \in 0..6
    /\ adjustedWeekday(1) = 0 /\ adjustedWeekday(0) = 6
    /\ scan.pc # "idle" =>
          \A i \in 0..6 :
             /\ scan.weekdayData[i].MessageCount =
                   Cardinality({p \in CountedPlaces : (WeekdayOf(LineAt(p).ts) + 6) % 7 = i})
             /\ scan.aggregate.WeekdayData[i].MessageCount = scan.weekdayData[i].MessageCount

\* The files are read, and a record of a Sunday and one of a Monday were
\* counted.
C21_Witness ==
    /\ scan.pc = "done"
    /\ scan.weekdayData[6].MessageCount >= 1
    /\ scan.weekdayData[0].MessageCount >= 1
    /\ scan.aggregate.WeekdayData[6].MessageCount >= 1

\* The session identifiers of the scanned records that satisfy held, the
\* empty identifier being none.
SessionsSeen(held(_)) ==
    { LineAt(p).SessionID :
        p \in { q \in ScannedPlaces : /\ LineAt(q).kind = "record"
                                      /\ held(LineAt(q))
                                      /\ LineAt(q).SessionID # "" } }

\* The records the project parser takes sessions from, and those the cache
\* builder does.
Timed(rec) == rec.tsOk /\ Contains(tf, rec.ts.sec)
AssistantTimed(rec) == rec.tsOk /\ rec.Type = "assistant"

\* The live parsers: the daily activity holds for each date the number of
\* distinct sessions of the counted records of that date, and the project
\* statistics return the number of distinct sessions of the records read.
LiveSessionsAreDistinct ==
    /\ \A date \in DOMAIN scan.daily.dailyMap :
          scan.daily.dailyMap[date].SessionCount =
             Cardinality(SessionsSeen(LAMBDA rec : Counted(rec, tf) /\ FormatDate(rec.ts) = date))
    /\ \A out \in scan.out :
          out.TotalSessions = Cardinality(SessionsSeen(Timed))

\* The snapshot: the same for the days and the total of the cache built
\* from the same files, which have no filter.
SnapshotSessionsAreDistinct ==
    \A out \in scan.out :
       /\ out.cache.TotalSessions = Cardinality(SessionsSeen(AssistantTimed))
       /\ \A date \in DOMAIN out.cache.DailyStats :
             out.cache.DailyStats[date].SessionCount =
                Cardinality(SessionsSeen(LAMBDA rec : AssistantTimed(rec)
                                                       /\ FormatDate(rec.ts) = date))

\* C24: after any sequence of transcript records the session count of each
\* date is the number of distinct session identifiers seen for that date,
\* and the session total is the number of distinct identifiers seen in the
\* whole pass, in the live statistics and in the snapshot.
C24_SessionsCountedOnce ==
    scan.pc # "idle" => LiveSessionsAreDistinct /\ SnapshotSessionsAreDistinct

\* The loops have just been over a record whose type is not "assistant".
OtherTypeRead ==
    /\ scan.pc = "read"
    /\ scan'.pc = "read"
    /\ scan'.file = scan.file
    /\ scan'.dec.pos = scan.dec.pos + 1
    /\ scan.files[scan.file][scan'.dec.pos].kind = "record"
    /\ scan.files[scan.file][scan'.dec.pos].Type # "assistant"

\* The message count of a project, 0 for a project that has no entry.
MessageCountOf(projectMap, name) ==
    IF name \in DOMAIN projectMap THEN projectMap[name].MessageCount ELSE 0

\* C25: a transcript record of a type other than "assistant" leaves the
\* message, model, weekday, hourly and daily counts as they were, in the
\* single pass, in the parsers of one statistic each and in the cache
\* builder.
C25_OnlyAssistantRecordsCount ==
    [][OtherTypeRead =>
          /\ scan'.aggregate = scan.aggregate
          /\ scan'.projects.totalMessages = scan.projects.totalMessages
          /\ \A name \in DOMAIN scan'.projects.projectMap :
                MessageCountOf(scan'.projects.projectMap, name)
                   = MessageCountOf(scan.projects.projectMap, name)
          /\ scan'.weekdayData = scan.weekdayData
          /\ scan'.daily.dailyMap = scan.daily.dailyMap
          /\ scan'.hourlyCounts = scan.hourlyCounts
          /\ scan'.modelStats = scan.modelStats
          /\ scan'.cached.cache = scan.cached.cache]_vars

\* A user record has given a project its entry and its session without a
\* message, after an assistant record was counted.
C25_Witness ==
    /\ scan.pc = "done"
    /\ "/c" \in DOMAIN scan.projects.projectMap
    /\ scan.projects.projectMap["/c"].MessageCount = 0
    /\ scan.projects.projectMap["/c"].SessionCount = 1
    /\ "s3" \in scan.projects.sessions
    /\ scan.projects.totalMessages = 1
    /\ scan.aggregate.HourlyCounts[10] = 1

\* The live statistics of the transcripts hold no project without a name:
\* a record with an empty cwd is counted under "Unknown".
LiveProjectKeysAreNamed ==
    scan.pc # "idle" =>
        /\ "" \notin DOMAIN scan.aggregate.ProjectStats
        /\ "" \notin DOMAIN scan.projects.projectMap
        /\ \A name \in {"Unknown"} :
              MessageCountOf(scan.projects.projectMap, name)
                 = Cardinality({p \in CountedPlaces : LineAt(p).Cwd = ""})

\* The snapshot a build has saved holds no project without a name in the
\* project counts of its days.
SnapshotProjectKeysAreNamed ==
    (ret.op \in {"BuildFullCache", "IncrementalUpdate"} /\ ret.st = "ok") =>
        \A snap \in ret.built :
           \A date \in DOMAIN snap.DailyStats :
              "" \notin DOMAIN snap.DailyStats[date].ProjectCounts

\* C26: a record with an empty project path is counted under "Unknown" in
\* the single pass, in the project parser and in the cache builder: no
\* aggregate keyed by project, the project counts of the days of a snapshot
\* included, holds the empty string as a key.
C26_EmptyProjectIsUnknown ==
    LiveProjectKeysAreNamed /\ SnapshotProjectKeysAreNamed

\* The places of the counted records whose message parses and names the
\* model.
ModelPlaces(model) ==
    { p \in CountedPlaces : LineAt(p).msgOk /\ LineAt(p).Model = model }

\* The input and output tokens of the records at the places, added up.
RECURSIVE TokensAt(_)
TokensAt(places) ==
    IF places = {} THEN 0
    ELSE LET p == CHOOSE q \in places : TRUE
         IN  LineAt(p).InputTokens + LineAt(p).OutputTokens + TokensAt(places \ {p})

\* The statistics of the models are those of the records that name them.
ModelStatsAre(modelStats) ==
    /\ DOMAIN modelStats = { model \in {"opus", "sonnet"} : ModelPlaces(model) # {} }
    /\ \A model \in DOMAIN modelStats :
          /\ modelStats[model].Model = model
          /\ modelStats[model].Count = Cardinality(ModelPlaces(model))
          /\ modelStats[model].Tokens = TokensAt(ModelPlaces(model))

RECURSIVE SumOver(_, _)
SumOver(map, keys) ==
    IF keys = {} THEN 0
    ELSE LET k == CHOOSE x \in keys : TRUE
         IN  map[k] + SumOver(map, keys \ {k})

\* The counts of a map, or of one field of its entries, added up.
SumOf(map) == SumOver(map, DOMAIN map)
SumOfField(map, field) == SumOver([k \in DOMAIN map |-> map[k][field]], DOMAIN map)

\* C27: for every model the request count is the number of counted
\* assistant records that name it and the token total is the sum of their
\* input and output tokens; an assistant record whose message names no
\* model or does not parse adds nothing to the models and is counted in the
\* project, daily, hourly and weekday statistics all the same, so that the
\* model counts add up to no more than the messages.
C27_ModelStatsOfNamedModels ==
    scan.pc # "idle" =>
        /\ ModelStatsAre(scan.modelStats)
        /\ ModelStatsAre(scan.aggregate.ModelUsage)
        /\ SumOfField(scan.aggregate.ProjectStats, "MessageCount") = Cardinality(CountedPlaces)
        /\ SumOf(scan.aggregate.DailyActivity) = Cardinality(CountedPlaces)
        /\ SumOf(scan.aggregate.HourlyCounts) = Cardinality(CountedPlaces)
        /\ SumOfField(scan.aggregate.WeekdayData, "MessageCount") = Cardinality(CountedPlaces)
        /\ scan.projects.totalMessages = Cardinality(CountedPlaces)
        /\ SumOfField(scan.daily.dailyMap, "MessageCount") = Cardinality(CountedPlaces)
        /\ SumOf(scan.hourlyCounts) = Cardinality(CountedPlaces)
        /\ SumOfField(scan.weekdayData, "MessageCount") = Cardinality(CountedPlaces)
        /\ SumOfField(scan.modelStats, "Count") <= scan.projects.totalMessages
        /\ SumOfField(scan.aggregate.ModelUsage, "Count") <= Cardinality(CountedPlaces)

\* Three assistant records were counted: one names a model, one names none
\* and one has a message that does not parse.
C27_Witness ==
    /\ scan.pc = "done"
    /\ scan.projects.totalMessages = 3
    /\ DOMAIN scan.modelStats = {"opus"}
    /\ scan.modelStats["opus"].Count = 1
    /\ scan.modelStats["opus"].Tokens = 15
    /\ \E p \in CountedPlaces : ~LineAt(p).msgOk
    /\ \E p \in CountedPlaces : LineAt(p).msgOk /\ LineAt(p).Model = ""

\* The list holds one entry per key of the map, the entry of the key.
OneEntryPerKey(list, map, key) ==
    /\ Len(list) = Cardinality(DOMAIN map)
    /\ \A k \in DOMAIN map :
          /\ Cardinality({i \in DOMAIN list : list[i][key] = k}) = 1
          /\ \E i \in DOMAIN list : list[i] = map[k]

\* C28: finalize turns each map into a list that holds one entry per key
\* of the map with the count of the key, the projects in non-increasing
\* order of messages, the models in non-increasing order of requests and
\* the days in strictly increasing order of date.
C28_FinalizedListsAreTheMaps ==
    scan.pc = "done" =>
        /\ OneEntryPerKey(scan.aggregate.Projects, scan.aggregate.ProjectStats, "Project")
        /\ OneEntryPerKey(scan.aggregate.ModelUsageList, scan.aggregate.ModelUsage, "Model")
        /\ Len(scan.aggregate.DailyActivityList) = Cardinality(DOMAIN scan.aggregate.DailyActivity)
        /\ \A date \in DOMAIN scan.aggregate.DailyActivity :
              Cardinality({ i \in DOMAIN scan.aggregate.DailyActivityList :
                              scan.aggregate.DailyActivityList[i] =
                                 [Date |-> date,
                                  MessageCount |-> scan.aggregate.DailyActivity[date]] }) = 1
        /\ \A i \in 1..Len(scan.aggregate.Projects) - 1 :
              scan.aggregate.Projects[i].MessageCount
                 >= scan.aggregate.Projects[i + 1].MessageCount
        /\ \A i \in 1..Len(scan.aggregate.ModelUsageList) - 1 :
              scan.aggregate.ModelUsageList[i].Count
                 >= scan.aggregate.ModelUsageList[i + 1].Count
        /\ \A i \in 1..Len(scan.aggregate.DailyActivityList) - 1 :
              DateLess(scan.aggregate.DailyActivityList[i].Date,
                       scan.aggregate.DailyActivityList[i + 1].Date)

\* A pass has been finalized with two projects and two models of unequal
\* counts and with two days.
C28_Witness ==
    /\ scan.pc = "done"
    /\ Len(scan.aggregate.Projects) = 2
    /\ scan.aggregate.Projects[1].MessageCount = 2
    /\ scan.aggregate.Projects[2].MessageCount = 1
    /\ Len(scan.aggregate.ModelUsageList) = 2
    /\ scan.aggregate.ModelUsageList[1].Count = 2
    /\ scan.aggregate.ModelUsageList[2].Count = 1
    /\ Len(scan.aggregate.DailyActivityList) = 2

----------------------------------------------------------------------------
(* Claims about the work hours.                                            *)

\* The greatest count of a histogram over the hours 0 to 23.
PeakOf(hist) == CHOOSE c \in {hist[h] : h \in 0..23} : \A h \in 0..23 : hist[h] <= c

\* The statistics w are those of the histogram: the work count is that of
\* the hours 9 to 18, the off count that of the others, the peak count the
\* greatest count and the peak hour the first hour that has it.
WorkHoursAre(w, hist) ==
    /\ w.WorkHoursCount = SumOver(hist, 9..18)
    /\ w.OffHoursCount = SumOver(hist, (0..23) \ (9..18))
    /\ w.WorkHoursCount + w.OffHoursCount = SumOver(hist, 0..23)
    /\ w.PeakHourCount = PeakOf(hist)
    /\ w.PeakHour \in 0..23
    /\ hist[w.PeakHour] = PeakOf(hist)
    /\ \A h \in 0..23 : h < w.PeakHour => hist[h] < PeakOf(hist)

\* The histogram of the snapshot an answer was built from.
ServedHistogram == [h \in 0..23 |-> CachedHourCount(handler.view, h)]

\* C29: the work-hours statistics are those of the hourly histogram (work
\* count over the hours 9 to 18, off count over the others, the two adding
\* up to the messages, the greatest count as the peak and the first hour
\* that has it as the peak hour), and what buildDataFromCache derives from
\* a snapshot is what finalize derives from the same histogram, the
\* histogram of zeros included.
C29_WorkHoursOfHistogram ==
    (handler.pc = "ok" /\ handler.from = "cache") =>
        /\ WorkHoursAre(WorkHours(HourlyList(ServedHistogram)), ServedHistogram)
        /\ WorkHoursAre(handler.WorkHoursStats, ServedHistogram)
        /\ handler.WorkHoursStats = WorkHours(HourlyList(ServedHistogram))

----------------------------------------------------------------------------
(* concurrent.go: ParseDebugLogsConcurrent.  One goroutine per file of     *)
(* debug/ whose modification time the filter holds counts the tools of the *)
(* file in a map of its own and sends the map on the channel results,      *)
(* which the caller adds up.                                               *)

MaxDebugLines == 3

DebugFiles == {"debug/a.txt", "debug/b.txt"}

\* The lines of a debug log: a tool named twice, another tool, a line of
\* 70,000 bytes, and a line of more than a megabyte that names a tool.
DebugLines ==
    { <<"search::web", "search::web">>,
      <<"fs::read">>,
      <<LongText, "search::web">>,
      <<HugeText, "fs::read">> }

ToolKeys == {"search::web", "fs::read"}

\* strings.Split(fullTool, "::")
Split(fullTool) ==
    IF fullTool = "search::web" THEN <<"search", "web">> ELSE <<"fs", "read">>

\* debug/ is missing, or holds the two files, a.txt written on the 5th of
\* January 2026 and b.txt on the 10th, with at most MaxDebugLines lines
\* between them.
DebugCorpora ==
    {Absent} \cup
    { [st |-> "ok",
       files |-> [f \in DebugFiles |->
                    DataFile(IF f = "debug/a.txt" THEN Monday1000 ELSE Saturday1730, g[f])]] :
        g \in { h \in [DebugFiles -> SeqsUpTo(DebugLines, MaxDebugLines)] :
                  Len(h["debug/a.txt"]) + Len(h["debug/b.txt"]) <= MaxDebugLines } }

InitDebug ==
    /\ pass = "debug"
    /\ tz = 0
    /\ now = DateAt(2026, 2, 1, 0, 30, 0, 0)
    /\ req = NoRequest /\ built = "none" /\ ferr = FALSE
    /\ resp = "none" /\ aggTf = {} /\ probe = {} /\ contained = FALSE
    /\ tf \in PassFilters
    /\ IdleCache
    /\ IdleBuilder
    /\ ncpu \in NumCPUs
    /\ corpus \in DebugCorpora
    /\ mainPc = "start"
    /\ pc = <<>>
    /\ dec = <<>>
    /\ cur = <<>>
    /\ sem = 0
    /\ batches = NoChannel
    /\ mu = {}
    /\ agg = NewAggregate
    /\ IdleCalls

\* The files the filter holds: tf.Contains(info.ModTime()).
fileInfos == { f \in DebugFiles : Contains(tf, corpus.files[f].mtime) }

\* ParseDebugLogsConcurrent up to the loop over results: reads the
\* directory, returns the error if it cannot, and starts one goroutine per
\* file the filter holds.
StartDebug ==
    /\ pass = "debug"
    /\ mainPc = "start"
    /\ IF corpus.st # "ok"
       THEN /\ mainPc' = "error"
            /\ UNCHANGED <<pc, cur, batches, agg>>
       ELSE /\ mainPc' = "range"
            /\ pc' = [f \in fileInfos |-> "acquire"]
            /\ cur' = [f \in fileInfos |-> EmptyMap]
            /\ batches' = NoChannel
            /\ agg' = [aggregateCounts |-> EmptyMap, toolStats |-> <<>>]
    /\ UNCHANGED <<pass, ncpu, corpus, dec, sem, mu>>
    /\ UNCHANGED otherThanAgg

\* sem <- struct{}{}
AcquireDebug(f) ==
    /\ pass = "debug"
    /\ f \in DOMAIN pc
    /\ pc[f] = "acquire"
    /\ sem < getWorkerCount(ncpu)
    /\ sem' = sem + 1
    /\ pc' = [pc EXCEPT ![f] = "parse"]
    /\ UNCHANGED <<pass, ncpu, corpus, mainPc, dec, cur, batches, mu, agg>>
    /\ UNCHANGED otherThanAgg

\* parseDebugFileOptimized, whose scanner takes lines of up to a megabyte.
parseDebugFileOptimized(counts, lines) == ScanLoop(counts, lines, 1024 * 1024)

ParseDebugFile(f) ==
    /\ pass = "debug"
    /\ f \in DOMAIN pc
    /\ pc[f] = "parse"
    /\ cur' = [cur EXCEPT ![f] = parseDebugFileOptimized(@, corpus.files[f].lines)]
    /\ pc' = [pc EXCEPT ![f] = "send"]
    /\ UNCHANGED <<pass, ncpu, corpus, mainPc, dec, sem, batches, mu, agg>>
    /\ UNCHANGED otherThanAgg

\* results <- toolCounts, on a channel with room for every file, and the
\* deferred <-sem and wg.Done().
SendResult(f) ==
    /\ pass = "debug"
    /\ f \in DOMAIN pc
    /\ pc[f] = "send"
    /\ batches' = [batches EXCEPT !.q = Append(@, cur[f])]
    /\ sem' = sem - 1
    /\ pc' = [pc EXCEPT ![f] = "done"]
    /\ UNCHANGED <<pass, ncpu, corpus, mainPc, dec, cur, mu, agg>>
    /\ UNCHANGED otherThanAgg

\* wg.Wait() and close(results) in the goroutine that waits for the others.
CloseResults ==
    /\ pass = "debug"
    /\ mainPc = "range"
    /\ ~batches.closed
    /\ \A f \in DOMAIN pc : pc[f] = "done"
    /\ batches' = [batches EXCEPT !.closed = TRUE]
    /\ UNCHANGED <<pass, ncpu, corpus, mainPc, pc, dec, cur, sem, mu, agg>>
    /\ UNCHANGED otherThanAgg

\* One turn of "for counts := range results".
ReceiveResult ==
    /\ pass = "debug"
    /\ mainPc = "range"
    /\ batches.q # <<>>
    /\ agg' = [agg EXCEPT !.aggregateCounts = MergeCounts(@, Head(batches.q))]
    /\ batches' = [batches EXCEPT !.q = Tail(@)]
    /\ UNCHANGED <<pass, ncpu, corpus, mainPc, pc, dec, cur, sem, mu>>
    /\ UNCHANGED otherThanAgg

\* The MCPToolStats of the counted keys, before they are sorted.
ToolStatsOf(counts) ==
    [fullTool \in DOMAIN counts |->
        [Tool |-> Split(fullTool)[2], Server |-> Split(fullTool)[1], Count |-> counts[fullTool]]]

\* The channel is closed and empty: the tools are put in a slice, sorted by
\* count, and returned.
FinishDebug ==
    /\ pass = "debug"
    /\ mainPc = "range"
    /\ batches.q = <<>>
    /\ batches.closed
    /\ \E toolStats \in ListsOf(ToolStatsOf(agg.aggregateCounts)) :
          /\ Descending(toolStats, "Count")
          /\ agg' = [agg EXCEPT !.toolStats = toolStats]
    /\ mainPc' = "done"
    /\ UNCHANGED <<pass, ncpu, corpus, pc, dec, cur, sem, batches, mu>>
    /\ UNCHANGED otherThanAgg

NextDebug ==
    \/ StartDebug
    \/ \E f \in DebugFiles : AcquireDebug(f)
    \/ \E f \in DebugFiles : ParseDebugFile(f)
    \/ \E f \in DebugFiles : SendResult(f)
    \/ CloseResults
    \/ ReceiveResult
    \/ FinishDebug

SpecDebug == InitDebug /\ [][NextDebug]_vars

----------------------------------------------------------------------------
(* Claims about the tools counted in the debug logs.                       *)

\* The places <<file, line, piece>> at which the scanned files name the
\* tool under the key fullTool.
ToolPlaces(fullTool) ==
    { p \in DebugFiles \X (1..MaxDebugLines + 1) \X (1..2) :
        /\ p[1] \in fileInfos
        /\ p[2] <= Len(corpus.files[p[1]].lines)
        /\ p[3] <= Len(corpus.files[p[1]].lines[p[2]])
        /\ corpus.files[p[1]].lines[p[2]][p[3]] = fullTool }

\* The count the pass reports for a key, 0 when it reports none.
ReportedCount(fullTool) ==
    IF \E i \in DOMAIN agg.toolStats :
          <<agg.toolStats[i].Server, agg.toolStats[i].Tool>> = Split(fullTool)
    THEN (CHOOSE item \in Elements(agg.toolStats) :
             <<item.Server, item.Tool>> = Split(fullTool)).Count
    ELSE 0

\* C23: the count reported for a key server::tool is the number of
\* occurrences of mcp__server__tool over all lines of all scanned debug
\* files, each of several occurrences on a line counted, however the files
\* are spread over the tasks.
C23_ToolCountIsOccurrences ==
    (pass = "debug" /\ mainPc = "done") =>
        \A fullTool \in ToolKeys : ReportedCount(fullTool) = Cardinality(ToolPlaces(fullTool))

----------------------------------------------------------------------------
(* The passes of concurrent.go and parser.go side by side: the fan-out     *)
(* over the transcripts, the batches of the history and the fan-out over   *)
(* the debug logs.                                                         *)

InitFanOut == InitAgg \/ InitDebug

NextFanOut == NextAgg \/ NextDebug

SpecFanOut == InitFanOut /\ [][NextFanOut]_vars

\* make(chan struct{}, maxWorkers): the slots of the semaphore of a
\* fan-out, runtime.NumCPU() for the transcripts and getWorkerCount() for
\* the debug logs.
SemCapacity == IF pass = "debug" THEN getWorkerCount(ncpu) ELSE ncpu

\* The tasks of a fan-out that have sent on sem and not yet received from
\* it: they are in parseProjectFileAggregate or between
\* parseDebugFileOptimized and the send of the result.
SlotHolders ==
    IF pass = "projects" THEN { f \in DOMAIN pc : pc[f] \in {"decode", "lock", "locked"} }
    ELSE IF pass = "debug" THEN { f \in DOMAIN pc : pc[f] \in {"parse", "send"} }
    ELSE {}

\* The slots taken are those of the holders, never more than the
\* semaphore has, and a transcript that is open belongs to a holder.
SlotsBound ==
    pass \in {"projects", "debug"} =>
        /\ sem = Cardinality(SlotHolders)
        /\ sem <= SemCapacity
        /\ pass = "projects" =>
              \A f \in DOMAIN dec : f \in SlotHolders \/ pc[f] = "done"

\* A task becomes a holder from "acquire" when a slot is free, and stops
\* being one when it ends, one slot being given back.
SlotStep ==
    pass \in {"projects", "debug"} =>
        \A f \in DOMAIN pc \cap DOMAIN pc' :
           /\ (f \notin SlotHolders /\ f \in SlotHolders') =>
                 (pc[f] = "acquire" /\ sem < SemCapacity /\ sem' = sem + 1)
           /\ (f \in SlotHolders /\ f \notin SlotHolders') =>
                 (pc'[f] = "done" /\ sem' = sem - 1)
           /\ (pc[f] = "done" => pc'[f] = "done")

\* C31: in a fan-out over files the tasks that hold a slot of the
\* semaphore, which are the tasks that have a file open, are never more
\* than the semaphore has slots; a task opens its file after it has taken
\* a slot, and gives one slot back when it ends.
C31_SlotsBoundOpenFiles == []SlotsBound /\ [][SlotStep]_vars

\* Two files wait for the one slot of a single core: one task holds it
\* with its file open while the other has not yet taken one.
C31_Witness ==
    /\ pass = "projects"
    /\ ncpu = 1
    /\ sem = 1
    /\ \E f \in ProjectFiles, g \in ProjectFiles :
          /\ f \in DOMAIN pc /\ g \in DOMAIN pc
          /\ pc[f] = "locked"
          /\ pc[g] = "acquire"
          /\ corpus.files[g].st = "ok"

\* The five accumulators after the update for the record rec: one more
\* message for its project, its weekday, its day and its hour, and one
\* more request for its model if it names one.
RecordCounted(before, after, rec) ==
    /\ SumOfField(after.ProjectStats, "MessageCount")
          = SumOfField(before.ProjectStats, "MessageCount") + 1
    /\ SumOfField(after.WeekdayData, "MessageCount")
          = SumOfField(before.WeekdayData, "MessageCount") + 1
    /\ SumOf(after.DailyActivity) = SumOf(before.DailyActivity) + 1
    /\ SumOf(after.HourlyCounts) = SumOf(before.HourlyCounts) + 1
    /\ SumOfField(after.ModelUsage, "Count")
          = SumOfField(before.ModelUsage, "Count")
               + (IF rec.msgOk /\ rec.Model # "" THEN 1 ELSE 0)

\* A step of the fan-out over the transcripts: the aggregate changes in
\* the critical section of the task that holds the mutex, for the whole
\* record at once and with the mutex released at its end; a task in the
\* section holds the mutex, and a task that decodes does not; finalize
\* runs when every task has ended.
GuardedStep ==
    (pass = "projects" /\ mainPc = "wait") =>
        /\ mainPc' # "wait" => (mu = {} /\ \A f \in DOMAIN pc : pc[f] = "done")
        /\ (mainPc' = "wait" /\ agg' # agg) =>
              \E f \in DOMAIN pc :
                 /\ mu = {f} /\ pc[f] = "locked"
                 /\ mu' = {} /\ pc'[f] = "decode"
                 /\ RecordCounted(agg, agg', cur[f])
                 /\ \A g \in DOMAIN pc : g # f => pc'[g] = pc[g]
        /\ \A f \in DOMAIN pc :
              /\ pc[f] = "locked" <=> mu = {f}
              /\ (pc[f] = "locked" /\ pc'[f] # "locked") => (mu' = {} /\ agg' # agg)
              /\ (f \in DOMAIN dec /\ f \in DOMAIN dec' /\ dec'[f] # dec[f]) => f \notin mu
        /\ Cardinality(mu) <= 1
        /\ Cardinality({f \in DOMAIN pc : pc[f] = "locked"}) <= 1

\* C32: in the fan-out over the transcripts the shared aggregate is read
\* and written by the task that holds its mutex only; one task at a time
\* is inside a record update, the five accumulators of a record are
\* updated in that one section, and the mutex is released before the next
\* record is decoded.
C32_AggregateGuardedByMutex == [][GuardedStep]_vars

\* On four cores one task is inside the update of a record while the other
\* waits for the mutex with a record of its own, a first record having
\* been counted before.
C32_Witness ==
    /\ pass = "projects"
    /\ mainPc = "wait"
    /\ ncpu = 4
    /\ pc["p/s1.jsonl"] = "locked"
    /\ pc["q/s2.jsonl"] = "lock"
    /\ mu = {"p/s1.jsonl"}
    /\ SumOf(agg.HourlyCounts) = 1

\* The channel of batches is closed by the producer when it has ended,
\* after its last send.
ClosedAfterLastSend ==
    (pass = "history" /\ mainPc \in {"wait", "done"} /\ batches.closed) =>
        pc["producer"] = "done"

\* C33: ParseHistoryConcurrent returns for every history file that can be
\* opened, lines that are no JSON or that end early included: the producer
\* comes to the end of the input, sends what is left, closes the channel
\* after its last send, the workers leave their loops and the wait ends.
C33_HistoryPassReturns ==
    (pass = "history" /\ corpus.st = "ok") =>
        (<>(mainPc = "done") /\ []ClosedAfterLastSend)

\* The fan-outs under the Go scheduler: a goroutine that can take a step
\* takes one in the end.
SpecFanOutFair == SpecFanOut /\ WF_vars(NextFanOut)

\* What the counts of the tasks add up to for one key.
Contributed(fullTool) ==
    SumOver([f \in DOMAIN cur |->
                IF fullTool \in DOMAIN cur[f] THEN cur[f][fullTool] ELSE 0],
            DOMAIN cur)

\* The fan-out has returned: every task has ended and released its slot,
\* and the collector holds what every task has sent.
FanOutReturned ==
    /\ mainPc = "done"
    /\ sem = 0
    /\ \A f \in DOMAIN pc : pc[f] = "done"
    /\ pass = "debug" =>
          /\ batches.closed /\ batches.q = <<>>
          /\ \A fullTool \in ToolKeys :
                Contributed(fullTool) =
                    (IF fullTool \in DOMAIN agg.aggregateCounts
                     THEN agg.aggregateCounts[fullTool] ELSE 0)

\* results has room for every task, and is closed once every task has sent.
ResultsNeverBlock ==
    (pass = "debug" /\ mainPc \in {"range", "done"}) =>
        /\ Len(batches.q) <= Cardinality(DOMAIN pc)
        /\ batches.closed => \A f \in DOMAIN pc : pc[f] = "done"

\* C34: a per-file fan-out over a directory that can be read never
\* deadlocks, whatever the number of files and of slots: every task gets
\* a slot and ends, results is closed after every task has sent, and the
\* caller returns with what every task has contributed.
C34_FanOutsNeverDeadlock ==
    (pass \in {"projects", "debug"} /\ corpus.st = "ok") =>
        (<>FanOutReturned /\ []ResultsNeverBlock)

\* The records among the first n lines of history.jsonl that decode and
\* that the filter holds, in the order of the file.
PassedSeq(n) ==
    SelectSeq(SubSeq(corpus.lines, 1, n),
              LAMBDA l : l.kind = "record" /\ Contains(tf, UnixSeconds(l.Timestamp)))

RECURSIVE Flatten(_)
Flatten(q) == IF q = <<>> THEN <<>> ELSE Head(q) \o Flatten(Tail(q))

\* The records on their way: in the channel, oldest batch first, and in
\* the batch the producer is filling.
InFlight == Flatten(batches.q) \o cur["producer"].batch

\* The records counted so far: in the maps of the workers that have not
\* merged yet, and in the shared map.
Taken ==
    SumOver([w \in DOMAIN pc \ {"producer"} |->
                IF pc[w] = "done" THEN 0 ELSE SumOf(cur[w].localHourly)],
            DOMAIN pc \ {"producer"})
      + SumOf(agg.hourlyCounts)

\* Every record decoded so far that passed the filter is counted or on its
\* way, once; the batches are full but for the last one before the close.
BatchingConserves ==
    (pass = "history" /\ mainPc \in {"wait", "done"}) =>
        /\ Taken + Len(InFlight) = Len(PassedSeq(dec["producer"].pos))
        /\ InFlight = SubSeq(PassedSeq(dec["producer"].pos), Taken + 1,
                             Len(PassedSeq(dec["producer"].pos)))
        /\ \A i \in DOMAIN batches.q :
              \/ Len(batches.q[i]) = batchSize
              \/ /\ i = Len(batches.q) /\ batches.closed
                 /\ Len(batches.q[i]) \in 1..batchSize
        /\ Len(cur["producer"].batch) <= batchSize
        /\ pc["producer"] = "decode" => Len(cur["producer"].batch) < batchSize
        /\ mainPc = "done" =>
              /\ HistoryTotalsAre(SequentialHistory(NoCounts, corpus.lines))
              /\ SumOf(agg.hourlyCounts) = Len(PassedSeq(Len(corpus.lines)))

\* A batch that leaves the channel is the oldest one and is counted by one
\* worker, in its own maps.
OneReceiver ==
    (pass = "history" /\ mainPc = "wait" /\ Len(batches'.q) < Len(batches.q)) =>
        /\ batches'.q = Tail(batches.q)
        /\ \E w \in DOMAIN pc \ {"producer"} :
              /\ pc[w] = "receive"
              /\ cur'[w] = CountBatch(cur[w], Head(batches.q), tz)
              /\ \A t \in DOMAIN cur \ {w} : cur'[t] = cur[t]
        /\ agg' = agg

\* C35: batching loses and duplicates no record. Every decoded record that
\* passes the filter is in one batch, full or the last one; every batch is
\* taken by one worker; the merged command and hourly counts are those of
\* ParseHistoryWithFilter on the same file and filter, and the hourly
\* counts add up to the number of records that passed the filter.
C35_BatchingLosesNothing == []BatchingConserves /\ [][OneReceiver]_vars

\* A pass on four cores has ended in which one record more than a batch
\* holds passed the filter, in a full batch and a last one of one record,
\* and each of the two workers counted one of the batches.
C35_Witness ==
    /\ pass = "history"
    /\ mainPc = "done"
    /\ ncpu = 4
    /\ Len(PassedSeq(Len(corpus.lines))) = batchSize + 1
    /\ \E w \in Workers : w \in DOMAIN cur /\ SumOf(cur[w].localHourly) = batchSize
    /\ \E w \in Workers : w \in DOMAIN cur /\ SumOf(cur[w].localHourly) = 1
    /\ SumOf(agg.hourlyCounts) = batchSize + 1

----------------------------------------------------------------------------
(* cache.go: a snapshot and its views as objects in memory.  A pointer and *)
(* a map are addresses of cells; a struct copy copies the addresses in it. *)

\* The views and the writes followed.
MaxViews == 2
MaxWrites == 2

\* The address of the object of a kind that the snapshot (owner 0) or the
\* owner-th view allocated under a key.
Addr(owner, kind, key) == <<owner, kind, key>>

AliasDates == { DateStr(2026, 1, 7), DateStr(2026, 1, 8) }

\* The keys under which a CacheFile holds a pointer of each kind.
HoursOf(cf) == { h \in 0..23 : cf.HourlyStats[h] # {} }
WeekdaysOf(cf) == { w \in 0..6 : cf.WeekdayStats[w] # {} }

\* The cells of a snapshot with the days given, two messages of project /a
\* at 9 o'clock and a request to one model on each, and the aggregates g.
SourceCells(days, g) ==
    [a \in { Addr(0, kind, d) : kind \in {"day", "pc", "mc"}, d \in days }
             \cup { Addr(0, "hour", h) : h \in HoursOf(g) }
             \cup { Addr(0, "weekday", w) : w \in WeekdaysOf(g) }
             \cup { Addr(0, "proj", proj) : proj \in DOMAIN g.ProjectStats }
             \cup { Addr(0, "model", model) : model \in DOMAIN g.ModelUsage } |->
        IF a[2] = "day"
        THEN [Date |-> a[3], MessageCount |-> 2, SessionCount |-> 0, ToolCallCount |-> 0,
              HourlyCounts |-> [h \in 0..23 |-> IF h = 9 THEN 2 ELSE 0],
              ProjectCounts |-> {Addr(0, "pc", a[3])},
              ModelCounts |-> {Addr(0, "mc", a[3])}]
        ELSE IF a[2] = "pc" THEN [proj \in {"/a"} |-> 2]
        ELSE IF a[2] = "mc" THEN [model \in {"opus"} |-> 1]
        ELSE IF a[2] = "hour" THEN Deref(g.HourlyStats[a[3]])
        ELSE IF a[2] = "weekday" THEN Deref(g.WeekdayStats[a[3]])
        ELSE IF a[2] = "proj" THEN g.ProjectStats[a[3]]
        ELSE g.ModelUsage[a[3]]]

\* The CacheFile of that snapshot: its maps and arrays hold addresses.
SourceOf(days, g) ==
    [Version |-> "1.0", LastUpdate |-> DateAt(2026, 1, 8, 12, 0, 0, 0),
     TimeRange |-> [Start |-> ZeroTime, End |-> ZeroTime],
     DailyStats |-> [d \in days |-> Addr(0, "day", d)],
     HourlyStats |-> [h \in 0..23 |-> IF h \in HoursOf(g) THEN {Addr(0, "hour", h)} ELSE {}],
     TotalMessages |-> 2 * Cardinality(days), TotalSessions |-> 0,
     ProjectStats |-> [proj \in DOMAIN g.ProjectStats |-> Addr(0, "proj", proj)],
     ModelUsage |-> [model \in DOMAIN g.ModelUsage |-> Addr(0, "model", model)],
     WeekdayStats |-> [w \in 0..6 |-> IF w \in WeekdaysOf(g) THEN {Addr(0, "weekday", w)} ELSE {}],
     MCPToolStats |-> g.MCPToolStats]

\* CacheFile.QueryByTimeRange on the objects: the view, allocated as the
\* n-th, and the cells after the call.  dayCopy := *dayStats copies the
\* struct and with it the addresses of its two maps; hsCopy, projCopy and
\* muCopy are copies of structs without pointers; result.WeekdayStats[i] = ws
\* copies the pointer.
QueryOnHeap(cf, cells, n, start, end) ==
    LET kept == DatesInRange(cf, start, end)
        days == [date \in kept |-> cells[cf.DailyStats[date]]]
    IN  [view |->
            [Version       |-> cf.Version,
             LastUpdate    |-> cf.LastUpdate,
             TimeRange     |-> [Start |-> start, End |-> end],
             DailyStats    |-> [date \in kept |-> Addr(n, "day", date)],
             HourlyStats   |-> [h \in 0..23 |->
                                  IF cf.HourlyStats[h] # {} THEN {Addr(n, "hour", h)} ELSE {}],
             TotalMessages |-> SumField(days, kept, "MessageCount"),
             TotalSessions |-> SumField(days, kept, "SessionCount"),
             ProjectStats  |-> [proj \in DOMAIN cf.ProjectStats |-> Addr(n, "proj", proj)],
             ModelUsage    |-> [model \in DOMAIN cf.ModelUsage |-> Addr(n, "model", model)],
             WeekdayStats  |-> [w \in 0..6 |-> cf.WeekdayStats[w]],
             MCPToolStats  |-> [tool \in DOMAIN cf.MCPToolStats |-> cf.MCPToolStats[tool]]],
         cells |->
            [a \in { Addr(n, "day", date) : date \in kept }
                     \cup { Addr(n, "hour", h) : h \in HoursOf(cf) }
                     \cup { Addr(n, "proj", proj) : proj \in DOMAIN cf.ProjectStats }
                     \cup { Addr(n, "model", model) : model \in DOMAIN cf.ModelUsage } |->
                IF a[2] = "day" THEN cells[cf.DailyStats[a[3]]]
                ELSE IF a[2] = "hour" THEN cells[Deref(cf.HourlyStats[a[3]])]
                ELSE IF a[2] = "proj" THEN cells[cf.ProjectStats[a[3]]]
                ELSE cells[cf.ModelUsage[a[3]]]]
              @@ cells]

\* What a reader of a CacheFile sees when it follows every address.
MapAt(cells, ptr) == IF ptr = {} THEN EmptyMap ELSE cells[Deref(ptr)]

DeepDay(cells, a) ==
    [cells[a] EXCEPT !.ProjectCounts = MapAt(cells, @), !.ModelCounts = MapAt(cells, @)]

Deep(cf, cells) ==
    [Version       |-> cf.Version,
     LastUpdate    |-> cf.LastUpdate,
     TimeRange     |-> cf.TimeRange,
     DailyStats    |-> [date \in DOMAIN cf.DailyStats |-> DeepDay(cells, cf.DailyStats[date])],
     HourlyStats   |-> [h \in 0..23 |-> { cells[a] : a \in cf.HourlyStats[h] }],
     TotalMessages |-> cf.TotalMessages,
     TotalSessions |-> cf.TotalSessions,
     ProjectStats  |-> [proj \in DOMAIN cf.ProjectStats |-> cells[cf.ProjectStats[proj]]],
     ModelUsage    |-> [model \in DOMAIN cf.ModelUsage |-> cells[cf.ModelUsage[model]]],
     WeekdayStats  |-> [w \in 0..6 |-> { cells[a] : a \in cf.WeekdayStats[w] }],
     MCPToolStats  |-> cf.MCPToolStats]

\* DayAggregate.AddMessage on the day at address a, called by owner n: the
\* counters of the struct, and the map behind ProjectCounts, made when nil.
AddMessageAt(cells, n, a, project, hour) ==
    LET da == cells[a]
        counts == IF da.ProjectCounts = {} THEN Addr(n, "pc", da.Date)
                  ELSE Deref(da.ProjectCounts)
        counted == [da EXCEPT !.MessageCount = @ + 1,
                              !.HourlyCounts = IF hour >= 0 /\ hour < 24
                                               THEN [@ EXCEPT ![hour] = @ + 1] ELSE @,
                              !.ProjectCounts = {counts}]
    IN  [c \in DOMAIN cells \cup {counts} |->
            IF c = a THEN counted
            ELSE IF c = counts THEN Inc(MapAt(cells, da.ProjectCounts), project, 1)
            ELSE cells[c]]

\* dayAgg.ModelCounts[model]++ on the day at address a.
CountModelAt(cells, a, model) ==
    [cells EXCEPT ![Deref(cells[a].ModelCounts)] = Inc(@, model, 1)]

\* item.MessageCount++, or item.Count++ on a model, on the item at a.
CountItemAt(cells, a) ==
    IF "Count" \in DOMAIN cells[a]
    THEN [cells EXCEPT ![a].Count = @ + 1]
    ELSE [cells EXCEPT ![a].MessageCount = @ + 1]

\* A process holds a snapshot with one or two days, with or without the
\* aggregates that do not vary with time.
InitAlias ==
    /\ tz = 0
    /\ now = DateAt(2026, 1, 8, 12, 0, 0, 0)
    /\ req = NoRequest /\ tf = NoFilter /\ built = "none" /\ ferr = FALSE
    /\ resp = "none" /\ aggTf = {} /\ probe = {} /\ contained = FALSE
    /\ \E days \in (SUBSET AliasDates) \ {{}}, g \in Globals :
          /\ cache = SourceOf(days, g)
          /\ heap = [cells |-> SourceCells(days, g), views |-> <<>>, writes |-> 0]
    /\ view = {}
    /\ qrange = [Start |-> ZeroTime, End |-> ZeroTime]
    /\ expArg = {}
    /\ expired = FALSE
    /\ IdleBuilder
    /\ IdleAgg
    /\ ret = NoCall
    /\ loaded = NoCall
    /\ globalCache = {}
    /\ handler = NoHandler
    /\ scan = NoScan

\* cache.QueryByTimeRange(start, end)
QueryView(start, end) ==
    /\ Len(heap.views) < MaxViews
    /\ \E r \in {QueryOnHeap(cache, heap.cells, Len(heap.views) + 1, start, end)} :
          /\ heap' = [heap EXCEPT !.cells = r.cells, !.views = Append(@, r.view)]
          /\ view' = {r.view}
    /\ qrange' = [Start |-> start, End |-> end]
    /\ UNCHANGED <<cache, expArg, expired>>
    /\ UNCHANGED <<filterVars, builderVars, aggVars, ret, loaded, serveVars, scanVars>>

\* view.DailyStats[date].AddMessage(project, hour) by the holder of the
\* v-th view.
AddMessageToView(v, date, project, hour) ==
    /\ heap.writes < MaxWrites
    /\ v \in DOMAIN heap.views
    /\ date \in DOMAIN heap.views[v].DailyStats
    /\ heap' = [heap EXCEPT
                  !.cells = AddMessageAt(@, v, heap.views[v].DailyStats[date], project, hour),
                  !.writes = @ + 1]
    /\ UNCHANGED cacheVars
    /\ UNCHANGED <<filterVars, builderVars, aggVars, ret, loaded, serveVars, scanVars>>

\* view.DailyStats[date].ModelCounts[model]++ by the holder of the view.
CountModelInView(v, date, model) ==
    /\ heap.writes < MaxWrites
    /\ v \in DOMAIN heap.views
    /\ date \in DOMAIN heap.views[v].DailyStats
    /\ heap.cells[heap.views[v].DailyStats[date]].ModelCounts # {}
    /\ heap' = [heap EXCEPT
                  !.cells = CountModelAt(@, heap.views[v].DailyStats[date], model),
                  !.writes = @ + 1]
    /\ UNCHANGED cacheVars
    /\ UNCHANGED <<filterVars, builderVars, aggVars, ret, loaded, serveVars, scanVars>>

\* The items a view points to: of its hours and weekdays, its project and
\* its model entries.
ItemsOf(cf) ==
    UNION { cf.HourlyStats[h] : h \in 0..23 }
      \cup UNION { cf.WeekdayStats[w] : w \in 0..6 }
      \cup { cf.ProjectStats[proj] : proj \in DOMAIN cf.ProjectStats }
      \cup { cf.ModelUsage[model] : model \in DOMAIN cf.ModelUsage }

\* A count of one item of the view grows by one.
CountItemInView(v) ==
    /\ heap.writes < MaxWrites
    /\ v \in DOMAIN heap.views
    /\ \E a \in ItemsOf(heap.views[v]) :
          heap' = [heap EXCEPT !.cells = CountItemAt(@, a), !.writes = @ + 1]
    /\ UNCHANGED cacheVars
    /\ UNCHANGED <<filterVars, builderVars, aggVars, ret, loaded, serveVars, scanVars>>

AliasRanges ==
    { <<ZeroTime, ZeroTime>>,
      <<DateAt(2026, 1, 8, 0, 0, 0, 0), ZeroTime>>,
      <<DateAt(2026, 1, 9, 0, 0, 0, 0), ZeroTime>> }

NextAlias ==
    \/ \E r \in AliasRanges : QueryView(r[1], r[2])
    \/ \E v \in 1..MaxViews, date \in AliasDates : AddMessageToView(v, date, "/a", 9)
    \/ \E v \in 1..MaxViews, date \in AliasDates : CountModelInView(v, date, "opus")
    \/ \E v \in 1..MaxViews : CountItemInView(v)

SpecAlias == InitAlias /\ [][NextAlias]_vars

\* What a reader of the snapshot, and of the v-th view, sees.
DeepSource == Deep(cache, heap.cells)
DeepView(v) == Deep(heap.views[v], heap.cells)

\* A step leaves what the snapshot holds as it was, and changes what at
\* most one view holds.
FrameStep ==
    /\ Deep(cache', heap'.cells) = DeepSource
    /\ \A v \in DOMAIN heap.views : \A u \in DOMAIN heap.views \ {v} :
          Deep(heap'.views[v], heap'.cells) # DeepView(v) =>
              Deep(heap'.views[u], heap'.cells) = DeepView(u)

\* C36: QueryByTimeRange leaves the snapshot as it was, and the view it
\* returns shares nothing that can change with it: a change to a day's
\* project or model counts, to a weekday item or to an hourly, project or
\* model entry of a view changes neither the snapshot nor another view.
C36_ViewSharesNothing == [][FrameStep]_vars

----------------------------------------------------------------------------
(* Claims about the snapshots BuildFullCache builds.                       *)

\* snapshot.QueryByTimeRange(time.Time{}, time.Time{})
UnboundedView(snap) == QueryByTimeRange(snap, ZeroTime, ZeroTime)

\* C37: the query without bounds of a snapshot that BuildFullCache has built
\* holds every date of the snapshot, and its TotalMessages and TotalSessions
\* are those of the snapshot.
C37_UnboundedQueryKeepsTotals ==
    (ret.op = "BuildFullCache" /\ ret.st = "ok") =>
        \A snap \in ret.built :
            /\ DOMAIN UnboundedView(snap).DailyStats = DOMAIN snap.DailyStats
            /\ UnboundedView(snap).TotalMessages = snap.TotalMessages
            /\ UnboundedView(snap).TotalSessions = snap.TotalSessions

\* One of the three sources is there and cannot be read: os.Open or
\* os.ReadDir returns an error that is not "does not exist".
SourceFails(fs) ==
    \/ fs.history.st \notin {"absent", "ok"}
    \/ fs.projects.st \notin {"absent", "ok"}
    \/ fs.debug.st \notin {"absent", "ok"}

\* C38: when the scan of a source fails inside BuildFullCache the call
\* returns the error and writes nothing: the cache file is the one it was,
\* and loads as it did; and a call that has saved a snapshot has scanned
\* the three sources without an error.
C38_FailedScanWritesNothing ==
    ret.op = "BuildFullCache" =>
        /\ SourceFails(ret.data) => ret.st # "ok"
        /\ ret.st # "ok" =>
              /\ ret.built = {}
              /\ ret.after = ret.before
              /\ cacheFile = ret.before
              /\ LoadCacheFile(cacheFile) = LoadCacheFile(ret.before)
        /\ ret.st = "err" =>
              ret.step \in {"history", "projects", "debug", "save"}
        /\ ret.st = "ok" =>
              /\ ~SourceFails(ret.data)
              /\ ret.built # {}
              /\ LoadCacheFile(cacheFile).cache = ret.built

\* BuildFullCache has returned the error of the debug directory, which
\* cannot be read, over a cache file that holds a snapshot with a message,
\* and history.jsonl holds a record.
C38_Witness ==
    /\ ret.op = "BuildFullCache"
    /\ ret.st = "err"
    /\ ret.step = "debug"
    /\ Len(HistoryOf(ret.data)) >= 1
    /\ LoadCacheFile(ret.before).err = "none"
    /\ Deref(LoadCacheFile(cacheFile).cache).TotalMessages >= 1
    /\ Deref(LoadCacheFile(cacheFile).cache).LastUpdate < ret.at

\* A record is appended to one of the data files in this step.
DataGrows ==
    \/ Len(HistoryOf(dataFs')) > Len(HistoryOf(dataFs))
    \/ Len(TranscriptOf(dataFs')) > Len(TranscriptOf(dataFs))
    \/ Len(DebugOf(dataFs')) > Len(DebugOf(dataFs))

\* A data file that changes after a call has saved or kept the snapshot is
\* seen by NeedsRebuild.
ChangeAfterBuildIsSeen ==
    (ret.op \in {"BuildFullCache", "IncrementalUpdate"} /\ ret.st = "ok" /\ DataGrows) =>
        NeedsRebuild(cacheFile', dataFs')

\* After an IncrementalUpdate that has returned without an error nothing is
\* left to rebuild, as long as the data stay as they are.
UpdateSettles ==
    (ret.op = "IncrementalUpdate" /\ ret.st = "ok") => ~NeedsRebuild(cacheFile, dataFs)

\* C39: no change of a data file is lost by a rebuild. A file that changes
\* after BuildFullCache has read it is newer than the LastUpdate of the
\* snapshot, so that NeedsRebuild returns true; and with data that no
\* longer change, IncrementalUpdate leaves a state in which NeedsRebuild
\* returns false.
C39_NoChangeIsLost == [][ChangeAfterBuildIsSeen]_vars /\ []UpdateSettles

----------------------------------------------------------------------------
(* A snapshot that BuildFullCache has built, and calls of AddMessage on    *)
(* its days.                                                               *)

\* The calls of AddMessage followed.
MaxAdds == 2

\* The data the snapshot is built from: history.jsonl with up to two
\* lines, with or without a transcript.
DayTrees ==
    { [EmptyDataDir EXCEPT !.history = h, !.projects = p] :
        h \in {Absent} \cup { DataFile(StartOfTime, l) : l \in SeqsUpTo(AppendedHistory, 2) },
        p \in { Absent,
                Dir(<<DirEntry(Dir(<<FileEntry(
                    DataFile(StartOfTime,
                             <<ProjectRecord("assistant", "/a", "s1", TRUE,
                                             [sec |-> Saturday1730, off |-> 0],
                                             TRUE, "opus", 10, 5)>>))>>))>>) } }

\* BuildFullCache has returned over one of the trees; cache is the snapshot
\* it has saved.
InitDay ==
    /\ tz \in {0, 8 * 3600}
    /\ now = StartOfTime
    /\ req = NoRequest /\ tf = NoFilter /\ built = "none" /\ ferr = FALSE
    /\ resp = "none" /\ aggTf = {} /\ probe = {} /\ contained = FALSE
    /\ \E fs \in DayTrees :
          /\ BuildFullCache(fs, now, tz, Absent).st = "ok"
          /\ dataFs = fs
          /\ cacheFile = BuildFullCache(fs, now, tz, Absent).file
          /\ cache = Deref(BuildFullCache(fs, now, tz, Absent).built)
    /\ needs = {}
    /\ view = {}
    /\ qrange = [Start |-> ZeroTime, End |-> ZeroTime]
    /\ expArg = {}
    /\ expired = FALSE
    /\ IdleAgg
    /\ ret = [op |-> "BuildFullCache", st |-> "ok", adds |-> 0, inRange |-> TRUE]
    /\ loaded = NoCall
    /\ globalCache = {}
    /\ handler = NoHandler
    /\ scan = NoScan
    /\ heap = NoHeap

\* cache.DailyStats[date].AddMessage(project, hour); ret keeps the number
\* of calls and whether every hour so far was one of the day.
CallAddMessage(date, project, hour) ==
    /\ ret.adds < MaxAdds
    /\ date \in DOMAIN cache.DailyStats
    /\ cache' = [cache EXCEPT !.DailyStats[date] = AddMessage(@, project, hour)]
    /\ ret' = [op |-> "AddMessage", st |-> "ok", adds |-> ret.adds + 1,
               inRange |-> ret.inRange /\ hour \in 0..23]
    /\ UNCHANGED <<view, qrange, expArg, expired>>
    /\ UNCHANGED <<filterVars, builderVars, aggVars, loaded, serveVars, scanVars, heapVars>>

AddedHours == {0 - 1, 9, 23, 24}

NextDay ==
    \E date \in DOMAIN cache.DailyStats, project \in {"/a", ""}, hour \in AddedHours :
        CallAddMessage(date, project, hour)

SpecDay == InitDay /\ [][NextDay]_vars

\* The messages of the hours of a day.
HourlySum(da) == SumOver(da.HourlyCounts, 0..23)

\* A day counts each of its messages under one project, and under one hour
\* unless the hour it was given is none of the day; it is filed under its
\* own date.
DayAdds ==
    \A date \in DOMAIN cache.DailyStats :
        /\ cache.DailyStats[date].Date = date
        /\ cache.DailyStats[date].MessageCount = SumOf(cache.DailyStats[date].ProjectCounts)
        /\ HourlySum(cache.DailyStats[date]) <= cache.DailyStats[date].MessageCount
        /\ ret.inRange =>
              HourlySum(cache.DailyStats[date]) = cache.DailyStats[date].MessageCount

\* The total of a built snapshot is the sum over its days.
TotalAdds ==
    ret.op = "BuildFullCache" =>
        cache.TotalMessages = SumField(cache.DailyStats, DOMAIN cache.DailyStats, "MessageCount")

\* A call adds one message to one day; an hour that is none of the day
\* changes no hourly slot, any other hour changes its own slot alone.
AddStep ==
    \E date \in DOMAIN cache.DailyStats :
        /\ cache'.DailyStats[date].MessageCount = cache.DailyStats[date].MessageCount + 1
        /\ \A other \in DOMAIN cache.DailyStats \ {date} :
              cache'.DailyStats[other] = cache.DailyStats[other]
        /\ DOMAIN cache'.DailyStats = DOMAIN cache.DailyStats
        /\ IF ret'.inRange = ret.inRange /\ ret.inRange
           THEN HourlySum(cache'.DailyStats[date]) = HourlySum(cache.DailyStats[date]) + 1
           ELSE ret.inRange =>
                   cache'.DailyStats[date].HourlyCounts = cache.DailyStats[date].HourlyCounts

\* C40: in every snapshot BuildFullCache builds and after every sequence of
\* AddMessage calls on its days, the MessageCount of a day is the sum of
\* its ProjectCounts and, when every hour was within 0..23, the sum of its
\* HourlyCounts (an hour outside changes no slot); every key of DailyStats
\* is the Date of its entry; and TotalMessages of the built snapshot is
\* the sum of MessageCount over its dates.
C40_DayCountsAddUp == [](DayAdds /\ TotalAdds) /\ [][AddStep]_vars

\* A snapshot built from two records of one day has been given a third
\* message, of another project, at hour 24: its day counts three messages
\* under two projects and two under its hours.
C40_Witness ==
    /\ ret.op = "AddMessage"
    /\ ~ret.inRange
    /\ cache.TotalMessages = 2
    /\ \E date \in DOMAIN cache.DailyStats :
          /\ cache.DailyStats[date].MessageCount = 3
          /\ HourlySum(cache.DailyStats[date]) = 2
          /\ Cardinality(DOMAIN cache.DailyStats[date].ProjectCounts) = 2

====
